---- MODULE Spec2Model ----
(***************************************************************************)
(* A model of TebraChargeEntry.py: the charge-grouping, entity-resolution  *)
(* and payload-construction engine of process_excel_data and its helpers.  *)
(*                                                                         *)
(* Cell values are strings, as pd.read_excel(dtype=str) yields them; an    *)
(* empty cell is the float NaN, written NaN here.  Python's None is None   *)
(* for strings and NoId for integers.  Text is handled character by        *)
(* character, so trimming, case folding, parsing and formatting are        *)
(* computed as the code computes them.                                     *)
(***************************************************************************)
EXTENDS Integers, Sequences, FiniteSets, TLC

(***************************************************************************)
(* Python values                                                           *)
(***************************************************************************)
\* float('nan'), the value pandas gives an empty cell
NaN == "<NaN>"
\* None where the code holds a string or an object
None == "<None>"
\* None where the code holds an integer identifier
NoId == -1

\* pd.isna(v) / pd.notna(v)
isna(v) == v = NaN \/ v = None

\* str(v): str(float('nan')) is 'nan', str(None) is 'None'
str(v) == IF v = NaN THEN "nan" ELSE IF v = None THEN "None" ELSE v

\* truth value of an integer-or-None: None and 0 are falsy
Truthy(id) == id # NoId /\ id # 0

(***************************************************************************)
(* Python string methods                                                   *)
(***************************************************************************)
Char(s, i) == SubSeq(s, i, i)

Digits == "0123456789"
LowerChars == "abcdefghijklmnopqrstuvwxyz"
UpperChars == "ABCDEFGHIJKLMNOPQRSTUVWXYZ"

\* position of character c in s at or after i, 0 when absent
RECURSIVE IndexFrom(_, _, _)
IndexFrom(c, s, i) ==
    IF i > Len(s) THEN 0 ELSE IF Char(s, i) = c THEN i ELSE IndexFrom(c, s, i + 1)
IndexOf(c, s) == IndexFrom(c, s, 1)

\* the letters of each case, and the value of each digit
ToLower == [c \in {Char(UpperChars, i) : i \in 1..26} |-> Char(LowerChars, IndexOf(c, UpperChars))]
ToUpper == [c \in {Char(LowerChars, i) : i \in 1..26} |-> Char(UpperChars, IndexOf(c, LowerChars))]
DigitValue == [c \in {Char(Digits, i) : i \in 1..10} |-> IndexOf(c, Digits) - 1]
IsDigitChar(c) == c \in DOMAIN DigitValue

IsSpace(c) == c = " "

\* s.strip()
RECURSIVE FirstNonSpace(_, _)
FirstNonSpace(s, i) ==
    IF i > Len(s) THEN i ELSE IF IsSpace(Char(s, i)) THEN FirstNonSpace(s, i + 1) ELSE i
RECURSIVE LastNonSpace(_, _)
LastNonSpace(s, i) ==
    IF i < 1 THEN i ELSE IF IsSpace(Char(s, i)) THEN LastNonSpace(s, i - 1) ELSE i
strip(s) ==
    LET a == FirstNonSpace(s, 1)
    IN IF a > Len(s) THEN "" ELSE SubSeq(s, a, LastNonSpace(s, Len(s)))

RECURSIVE MapChars(_, _, _)
MapChars(s, map, i) ==
    IF i > Len(s) THEN ""
    ELSE LET c == Char(s, i)
         IN (IF c \in DOMAIN map THEN map[c] ELSE c) \o MapChars(s, map, i + 1)

\* s.lower() and s.upper()
lower(s) == MapChars(s, ToLower, 1)
upper(s) == MapChars(s, ToUpper, 1)

\* s[:n]
prefix(s, n) == SubSeq(s, 1, IF n < Len(s) THEN n ELSE Len(s))

\* the first position of seq whose element satisfies P, 0 when there is none
\* (next(... for x in seq if P(x)), and a loop left at its first hit)
RECURSIVE FirstFrom(_, _, _)
FirstFrom(seq, P(_), i) ==
    IF i > Len(seq) THEN 0 ELSE IF P(seq[i]) THEN i ELSE FirstFrom(seq, P, i + 1)
First(seq, P(_)) == FirstFrom(seq, P, 1)

\* s.isdigit()
isdigit(s) == s # "" /\ \A i \in 1..Len(s) : IsDigitChar(Char(s, i))

\* s.startswith(p), s.endswith(p), p in s
startswith(s, p) == Len(p) <= Len(s) /\ SubSeq(s, 1, Len(p)) = p
endswith(s, p) == Len(p) <= Len(s) /\ SubSeq(s, Len(s) - Len(p) + 1, Len(s)) = p
contains(s, p) == \E i \in 1..(Len(s) - Len(p) + 1) : SubSeq(s, i, i + Len(p) - 1) = p

\* s.replace(c, '') for a one-character c
RECURSIVE RemoveFrom(_, _, _)
RemoveFrom(s, c, i) ==
    IF i > Len(s) THEN ""
    ELSE (IF Char(s, i) = c THEN "" ELSE Char(s, i)) \o RemoveFrom(s, c, i + 1)
remove_char(s, c) == RemoveFrom(s, c, 1)

\* s.split(): the maximal runs of non-blank characters, in order
RECURSIVE SplitFrom(_, _)
SplitFrom(s, i) ==
    LET a == FirstNonSpace(s, i)
        sp == IndexFrom(" ", s, a)
        e == IF sp = 0 THEN Len(s) ELSE sp - 1
    IN IF a > Len(s) THEN <<>> ELSE <<SubSeq(s, a, e)>> \o SplitFrom(s, e + 1)
split(s) == SplitFrom(s, 1)

\* "sep".join(parts)
RECURSIVE join(_, _)
join(sep, parts) ==
    IF parts = <<>> THEN ""
    ELSE IF Len(parts) = 1 THEN parts[1]
    ELSE parts[1] \o sep \o join(sep, Tail(parts))

\* str(n) for an integer n
RECURSIVE NatToStr(_)
NatToStr(n) ==
    IF n < 10 THEN Char(Digits, n + 1)
    ELSE NatToStr(n \div 10) \o Char(Digits, (n % 10) + 1)
IntToStr(n) == IF n < 0 THEN "-" \o NatToStr(-n) ELSE NatToStr(n)

RECURSIVE DigitsValueTo(_, _)
DigitsValueTo(s, n) ==
    IF n = 0 THEN 0 ELSE 10 * DigitsValueTo(s, n - 1) + DigitValue[Char(s, n)]
DigitsValue(s) == DigitsValueTo(s, Len(s))

\* a ValueError raised by a conversion
ValueError == [ok |-> FALSE, val |-> 0]

\* a numeric text without its sign
unsigned(t) == IF startswith(t, "-") \/ startswith(t, "+") THEN SubSeq(t, 2, Len(t)) ELSE t
signed(neg, mag) == IF neg THEN 0 - mag ELSE mag

\* int(s) for a string s: surrounding blanks and one sign are allowed, the
\* rest must be digits; anything else raises ValueError
int_of(neg, body) ==
    IF isdigit(body) THEN [ok |-> TRUE, val |-> signed(neg, DigitsValue(body))] ELSE ValueError
int(s) == int_of(startswith(strip(s), "-"), unsigned(strip(s)))

\* float(s) for a string s of the form [sign]digits[.digits], in thousandths
\* (the inputs carry at most three decimals); anything else raises ValueError
float_of(neg, ip, fp) ==
    IF (ip # "" \/ fp # "") /\ (ip = "" \/ isdigit(ip)) /\ (fp = "" \/ isdigit(fp))
       /\ Len(fp) <= 3
    THEN [ok |-> TRUE,
          val |-> signed(neg, 1000 * DigitsValue(ip) + DigitsValue(SubSeq(fp \o "000", 1, 3)))]
    ELSE ValueError
float_unsigned(neg, body) ==
    IF IndexOf(".", body) = 0 THEN float_of(neg, body, "")
    ELSE float_of(neg, SubSeq(body, 1, IndexOf(".", body) - 1),
                  SubSeq(body, IndexOf(".", body) + 1, Len(body)))
float(s) == float_unsigned(startswith(strip(s), "-"), unsigned(strip(s)))

(***************************************************************************)
(* Dates                                                                   *)
(***************************************************************************)
\* pd.to_datetime(s) for the two layouts the sheets carry, 'YYYY-MM-DD' and
\* 'YYYY-MM-DD HH:MM:SS'; any other text raises ValueError (pandas' ParserError
\* is a ValueError)
IsDateText(d) ==
    /\ Len(d) = 10
    /\ isdigit(SubSeq(d, 1, 4)) /\ Char(d, 5) = "-"
    /\ isdigit(SubSeq(d, 6, 7)) /\ Char(d, 8) = "-"
    /\ isdigit(SubSeq(d, 9, 10))
    /\ DigitsValue(SubSeq(d, 6, 7)) \in 1..12
    /\ DigitsValue(SubSeq(d, 9, 10)) \in 1..31

IsTimeText(t) ==
    /\ Len(t) = 8
    /\ isdigit(SubSeq(t, 1, 2)) /\ Char(t, 3) = ":"
    /\ isdigit(SubSeq(t, 4, 5)) /\ Char(t, 6) = ":"
    /\ isdigit(SubSeq(t, 7, 8))
    /\ DigitsValue(SubSeq(t, 1, 2)) \in 0..23
    /\ DigitsValue(SubSeq(t, 4, 5)) \in 0..59
    /\ DigitsValue(SubSeq(t, 7, 8)) \in 0..59

parse_datetime(t) ==
    IF IsDateText(t) THEN [ok |-> TRUE, date |-> t, time |-> "00:00:00"]
    ELSE IF Len(t) = 19 /\ IsDateText(SubSeq(t, 1, 10)) /\ Char(t, 11) \in {" ", "T"}
            /\ IsTimeText(SubSeq(t, 12, 19))
    THEN [ok |-> TRUE, date |-> SubSeq(t, 1, 10), time |-> SubSeq(t, 12, 19)]
    ELSE [ok |-> FALSE, date |-> "", time |-> ""]
to_datetime(v) == parse_datetime(strip(v))

\* a faulty variant of strftime_date: the time of day stays in the key
strftime_with_time(dt) == dt.date \o " " \o dt.time

\* .strftime('%Y-%m-%d'): the grouping key's calendar date
strftime_date(dt) == dt.date
\* .strftime('%Y-%m-%dT%H:%M:%S')
strftime_api(dt) == dt.date \o "T" \o dt.time

format_datetime_for_api(date_value) ==
    IF isna(date_value) THEN None
    ELSE IF to_datetime(date_value).ok THEN strftime_api(to_datetime(date_value))
    ELSE None

(***************************************************************************)
(* Configuration                                                           *)
(***************************************************************************)
COL_PATIENT_ID == "Patient ID"
COL_FROM_DATE == "From Date"
COL_RENDERING_PROVIDER == "Rendering Provider"
COL_LOCATION == "Location"
COL_PLACE_OF_SERVICE_EXCEL == "Place of Service"
COL_ENCOUNTER_MODE == "Encounter Mode"

\* POS_CODE_MAP: the place-of-service names and their codes
POS_CODE_MAP ==
    [k \in {"OFFICE", "IN OFFICE", "INOFFICE", "TELEHEALTH", "TELEHEALTH OFFICE"} |->
        CASE k = "TELEHEALTH" -> [code |-> "10", name |-> "Telehealth Provided in Patient's Home"]
          [] k = "TELEHEALTH OFFICE" ->
                [code |-> "02", name |-> "Telehealth Provided Other than in Patient's Home"]
          [] OTHER -> [code |-> "11", name |-> "Office"]]

\* the practice id main() resolves once and passes to process_excel_data
current_practice_id == 1

(***************************************************************************)
(* The remote service                                                      *)
(*                                                                         *)
(* A remote call either raises (kind "Fault"), or returns a response whose *)
(* ErrorResponse.IsError is set (kind "Error"), whose SecurityResponse is  *)
(* not Authorized (kind "Unauthorized"), or a plain response carrying data *)
(* (kind "Ok").  Which one comes back is the service's choice.             *)
(***************************************************************************)
Response(kind, data) == [kind |-> kind, data |-> data]
NoResponse == Response("None", <<>>)

\* the Active attribute of a provider: a bool, or its text
ActiveTrue == "bool:True"
ActiveFalse == "bool:False"
is_active(p) == p.Active = ActiveTrue \/ (p.Active \notin {ActiveTrue, ActiveFalse, None}
                                          /\ lower(p.Active) = "true")

\* a call made to the remote service: the operation, the cache key whose
\* resolution issued it, and the filter sent
RemoteCall(op, for, filter) == [op |-> op, for |-> for, filter |-> filter]

\* what a resolver hands back: the value returned, the session state after
\* it, and the remote calls it issued
Resolved(ret, ss, calls) == [ret |-> ret, ss |-> ss, calls |-> calls]

\* st.session_state[key] = value
Store(ss, key, value) == (key :> value) @@ ss

(***************************************************************************)
(* get_provider_id_by_name                                                 *)
(***************************************************************************)
provider_cache_key(practice_id, name) ==
    "provider_id_" \o IntToStr(practice_id) \o "_" \o name

\* the exact phase: the first active provider of the response whose full
\* name equals the search name, case-insensitively, and whose ID is truthy
ExactProviderMatch(resp_exact, provider_name_search) ==
    LET data == IF resp_exact.kind = "Ok" THEN resp_exact.data ELSE <<>>
        wanted == lower(provider_name_search)
        hit(p) == /\ is_active(p)
                  /\ p.FullName # None /\ p.FullName # ""
                  /\ lower(strip(p.FullName)) = wanted
                  /\ Truthy(p.ID)
        i == First(data, hit)
    IN IF i # 0 THEN data[i].ID ELSE NoId

\* the search terms of the fuzzy phase
SelectTerms(ts) == SelectSeq(ts, LAMBDA t : lower(t) \notin {"md", "do", "pa", "np"} /\ t # "")
LowerAll(ts) == [i \in 1..Len(ts) |-> lower(ts[i])]
search_terms(provider_name_search) ==
    LET terms == LowerAll(SelectTerms(split(remove_char(remove_char(provider_name_search, ","), "."))))
    IN IF terms = <<>> THEN <<lower(provider_name_search)>> ELSE terms

\* the number of terms that occur in name_api
matched_terms(terms, name_api) == Cardinality({i \in 1..Len(terms) : contains(name_api, terms[i])})

\* a faulty variant of score_accepted: the cutoff is 40
score_accepted_above_40(terms, name_api, provider_name_search) ==
    \/ name_api = lower(provider_name_search)
    \/ matched_terms(terms, name_api) * 90 > 40 * Len(terms)

\* score > 70, where score is 100 on an exact match and
\* (matched / len(terms)) * 90 otherwise
score_accepted(terms, name_api, provider_name_search) ==
    \/ name_api = lower(provider_name_search)
    \/ matched_terms(terms, name_api) * 90 > 70 * Len(terms)

\* the score times len(terms), which orders the candidates as the score does
score_scaled(terms, name_api, provider_name_search) ==
    IF name_api = lower(provider_name_search) THEN 100 * Len(terms)
    ELSE matched_terms(terms, name_api) * 90

\* a faulty variant of FuzzyProviderMatch: of the entries with the best score
\* the last is taken
FuzzyProviderMatch_last_of_best(resp_all, provider_name_search) ==
    LET data == resp_all.data
        terms == search_terms(provider_name_search)
        name_api == [i \in 1..Len(data) |->
                        IF data[i].FullName # None /\ data[i].FullName # ""
                        THEN lower(strip(data[i].FullName)) ELSE ""]
        sc == [i \in 1..Len(data) |-> score_scaled(terms, name_api[i], provider_name_search)]
        flex == {i \in 1..Len(data) :
                    /\ is_active(data[i])
                    /\ name_api[i] # ""
                    /\ score_accepted(terms, name_api[i], provider_name_search)
                    /\ data[i].ID # NoId}
    IN IF flex = {} THEN NoId
       ELSE data[CHOOSE i \in flex :
                     \A j \in flex : sc[j] < sc[i] \/ (sc[j] = sc[i] /\ j <= i)].ID

\* the fuzzy phase: found_providers_flex, then the first entry of its stable
\* sort by descending score
FuzzyProviderMatch(resp_all, provider_name_search) ==
    LET data == resp_all.data
        terms == search_terms(provider_name_search)
        name_api == [i \in 1..Len(data) |->
                        IF data[i].FullName # None /\ data[i].FullName # ""
                        THEN lower(strip(data[i].FullName)) ELSE ""]
        sc == [i \in 1..Len(data) |-> score_scaled(terms, name_api[i], provider_name_search)]
        flex == {i \in 1..Len(data) :
                    /\ is_active(data[i])
                    /\ name_api[i] # ""
                    /\ score_accepted(terms, name_api[i], provider_name_search)
                    /\ data[i].ID # NoId}
    IN IF flex = {} THEN NoId
       ELSE data[CHOOSE i \in flex :
                     \A j \in flex : sc[j] < sc[i] \/ (sc[j] = sc[i] /\ i <= j)].ID

\* a faulty variant of get_provider_id_by_name: a SoapFault leaves the
\* function before line 234, so nothing is cached for the name
get_provider_id_fault_uncached(ss, practice_id, provider_name_from_excel, resp_exact, resp_all) ==
    LET provider_name_search == strip(str(provider_name_from_excel))
        cache_key == provider_cache_key(practice_id, provider_name_search)
        exact_call == RemoteCall("GetProviders", cache_key, "FullName=" \o provider_name_search)
        broad_call == RemoteCall("GetProviders", cache_key, "PracticeID")
        exact_id == ExactProviderMatch(resp_exact, provider_name_search)
    IN IF ~Truthy(practice_id) \/ provider_name_from_excel = "" \/ provider_name_from_excel = None
       THEN Resolved(NoId, ss, <<>>)
       ELSE IF provider_name_search = "" THEN Resolved(NoId, ss, <<>>)
       ELSE IF cache_key \in DOMAIN ss THEN Resolved(ss[cache_key], ss, <<>>)
       ELSE IF resp_exact.kind = "Fault" THEN Resolved(NoId, ss, <<exact_call>>)
       ELSE IF exact_id # NoId
       THEN Resolved(exact_id, Store(ss, cache_key, exact_id), <<exact_call>>)
       ELSE IF resp_all.kind # "Ok"
       THEN Resolved(NoId, Store(ss, cache_key, NoId), <<exact_call, broad_call>>)
       ELSE LET provider_id_found == FuzzyProviderMatch(resp_all, provider_name_search)
            IN Resolved(provider_id_found, Store(ss, cache_key, provider_id_found),
                        <<exact_call, broad_call>>)

get_provider_id_by_name(ss, practice_id, provider_name_from_excel, resp_exact, resp_all) ==
    LET provider_name_search == strip(str(provider_name_from_excel))
        cache_key == provider_cache_key(practice_id, provider_name_search)
        exact_call == RemoteCall("GetProviders", cache_key, "FullName=" \o provider_name_search)
        broad_call == RemoteCall("GetProviders", cache_key, "PracticeID")
        exact_id == ExactProviderMatch(resp_exact, provider_name_search)
    IN IF ~Truthy(practice_id) \/ provider_name_from_excel = "" \/ provider_name_from_excel = None
       THEN Resolved(NoId, ss, <<>>)
       ELSE IF provider_name_search = "" THEN Resolved(NoId, ss, <<>>)
       ELSE IF cache_key \in DOMAIN ss THEN Resolved(ss[cache_key], ss, <<>>)
       ELSE IF resp_exact.kind = "Fault"
       THEN Resolved(NoId, Store(ss, cache_key, NoId), <<exact_call>>)
       ELSE IF exact_id # NoId
       THEN Resolved(exact_id, Store(ss, cache_key, exact_id), <<exact_call>>)
       ELSE IF resp_all.kind # "Ok"
       THEN Resolved(NoId, Store(ss, cache_key, NoId), <<exact_call, broad_call>>)
       ELSE LET provider_id_found == FuzzyProviderMatch(resp_all, provider_name_search)
            IN Resolved(provider_id_found, Store(ss, cache_key, provider_id_found),
                        <<exact_call, broad_call>>)

\* whether the lookup reaches the remote service at all, and whether it goes
\* on to the broad query after the exact one
ProviderLookupQueries(ss, practice_id, provider_name_from_excel) ==
    /\ Truthy(practice_id)
    /\ provider_name_from_excel \notin {"", None}
    /\ strip(str(provider_name_from_excel)) # ""
    /\ provider_cache_key(practice_id, strip(str(provider_name_from_excel))) \notin DOMAIN ss
ProviderLookupGoesBroad(provider_name_from_excel, resp_exact) ==
    /\ resp_exact.kind # "Fault"
    /\ ExactProviderMatch(resp_exact, strip(str(provider_name_from_excel))) = NoId

(***************************************************************************)
(* get_location_id_by_name                                                 *)
(***************************************************************************)
location_cache_key(practice_id, name) ==
    "location_id_" \o IntToStr(practice_id) \o "_" \o name

LocationMatch(resp, location_name) ==
    LET data == resp.data
        wanted == lower(location_name)
        hit(loc) == /\ loc.Name # None /\ loc.Name # ""
                    /\ lower(strip(loc.Name)) = wanted
                    /\ Truthy(loc.ID)
        i == First(data, hit)
    IN IF i # 0 THEN data[i].ID ELSE NoId

\* a faulty variant of get_location_id_by_name: only a location that was
\* found is cached
get_location_id_found_only(ss, practice_id, location_name_to_find, resp) ==
    IF ~Truthy(practice_id) \/ location_name_to_find = "" \/ location_name_to_find = None
       \/ strip(str(location_name_to_find)) = ""
    THEN Resolved(NoId, ss, <<>>)
    ELSE IF location_cache_key(practice_id, strip(str(location_name_to_find))) \in DOMAIN ss
    THEN Resolved(ss[location_cache_key(practice_id, strip(str(location_name_to_find)))], ss, <<>>)
    ELSE IF resp.kind = "Ok" /\ LocationMatch(resp, strip(str(location_name_to_find))) # NoId
    THEN Resolved(LocationMatch(resp, strip(str(location_name_to_find))),
                  Store(ss, location_cache_key(practice_id, strip(str(location_name_to_find))),
                        LocationMatch(resp, strip(str(location_name_to_find)))),
                  <<RemoteCall("GetServiceLocations",
                               location_cache_key(practice_id,
                                                  strip(str(location_name_to_find))),
                               "PracticeID")>>)
    ELSE Resolved(NoId, ss,
                  <<RemoteCall("GetServiceLocations",
                               location_cache_key(practice_id,
                                                  strip(str(location_name_to_find))),
                               "PracticeID")>>)

get_location_id_by_name(ss, practice_id, location_name_to_find, resp) ==
    LET location_name == strip(str(location_name_to_find))
        cache_key == location_cache_key(practice_id, location_name)
        call == RemoteCall("GetServiceLocations", cache_key, "PracticeID")
        location_id == IF resp.kind = "Ok" THEN LocationMatch(resp, location_name) ELSE NoId
    IN IF ~Truthy(practice_id) \/ location_name_to_find = "" \/ location_name_to_find = None
       THEN Resolved(NoId, ss, <<>>)
       ELSE IF location_name = "" THEN Resolved(NoId, ss, <<>>)
       ELSE IF cache_key \in DOMAIN ss THEN Resolved(ss[cache_key], ss, <<>>)
       ELSE Resolved(location_id, Store(ss, cache_key, location_id), <<call>>)

LocationLookupQueries(ss, practice_id, location_name_to_find) ==
    /\ Truthy(practice_id)
    /\ location_name_to_find \notin {"", None}
    /\ strip(str(location_name_to_find)) # ""
    /\ location_cache_key(practice_id, strip(str(location_name_to_find))) \notin DOMAIN ss

(***************************************************************************)
(* get_primary_case_for_patient                                            *)
(***************************************************************************)
case_cache_key(patient_id) == "patient_case_" \o IntToStr(patient_id)

\* IsPrimaryCase is a bool or its text, like Active
is_primary(c) == c.IsPrimaryCase = ActiveTrue
                 \/ (c.IsPrimaryCase \notin {ActiveTrue, ActiveFalse, None}
                     /\ lower(c.IsPrimaryCase) = "true")

CaseFromResponse(cases) ==
    LET prim(c) == is_primary(c) /\ Truthy(c.PatientCaseID)
        i == First(cases, prim)
    IN IF i # 0 THEN cases[i].PatientCaseID
       ELSE IF cases # <<>> /\ Truthy(cases[1].PatientCaseID) THEN cases[1].PatientCaseID
       ELSE NoId

\* lines 277-286: what GetPatient answered to a lookup that asked it: the
\* cases of the patient when the call succeeded, and the case id found
NoCaseAnswer == [answered |-> FALSE, cases |-> <<>>, case_id_found |-> NoId]
CaseAnswer(r, resp) ==
    IF r.calls # <<>> /\ resp.kind = "Ok"
    THEN [answered |-> TRUE, cases |-> resp.data, case_id_found |-> r.ret]
    ELSE NoCaseAnswer

get_primary_case_for_patient(ss, patient_id_to_fetch, resp) ==
    LET cache_key == case_cache_key(patient_id_to_fetch)
        call == RemoteCall("GetPatient", cache_key, "PatientID=" \o IntToStr(patient_id_to_fetch))
        case_id_found == IF resp.kind = "Ok" THEN CaseFromResponse(resp.data) ELSE NoId
    IN IF cache_key \in DOMAIN ss THEN Resolved(ss[cache_key], ss, <<>>)
       ELSE Resolved(case_id_found, Store(ss, cache_key, case_id_found), <<call>>)

(***************************************************************************)
(* Payload construction                                                    *)
(***************************************************************************)
NoPayload == [ok |-> FALSE]

\* a faulty variant of create_place_of_service_payload: a number of any
\* length is taken for a code
create_place_of_service_payload_any_number(pos_val_excel) ==
    LET norm_pos_input == strip(str(pos_val_excel))
        norm_pos_upper == upper(norm_pos_input)
    IN IF isna(pos_val_excel) \/ strip(str(pos_val_excel)) = "" THEN NoPayload
       ELSE IF norm_pos_upper \in DOMAIN POS_CODE_MAP
       THEN [ok |-> TRUE, PlaceOfServiceCode |-> POS_CODE_MAP[norm_pos_upper].code,
             PlaceOfServiceName |-> POS_CODE_MAP[norm_pos_upper].name]
       ELSE IF isdigit(norm_pos_input)
       THEN [ok |-> TRUE, PlaceOfServiceCode |-> norm_pos_input,
             PlaceOfServiceName |-> norm_pos_input]
       ELSE NoPayload

create_place_of_service_payload(pos_val_excel) ==
    LET norm_pos_input == strip(str(pos_val_excel))
        norm_pos_upper == upper(norm_pos_input)
    IN IF isna(pos_val_excel) \/ strip(str(pos_val_excel)) = "" THEN NoPayload
       ELSE IF norm_pos_upper \in DOMAIN POS_CODE_MAP
       THEN [ok |-> TRUE, PlaceOfServiceCode |-> POS_CODE_MAP[norm_pos_upper].code,
             PlaceOfServiceName |-> POS_CODE_MAP[norm_pos_upper].name]
       ELSE IF isdigit(norm_pos_input) /\ Len(norm_pos_input) <= 2
       THEN [ok |-> TRUE, PlaceOfServiceCode |-> norm_pos_input,
             PlaceOfServiceName |->
                 IF \E k \in DOMAIN POS_CODE_MAP : POS_CODE_MAP[k].code = norm_pos_input
                 THEN POS_CODE_MAP[CHOOSE k \in DOMAIN POS_CODE_MAP :
                                       POS_CODE_MAP[k].code = norm_pos_input].name
                 ELSE norm_pos_input]
       ELSE NoPayload

\* a faulty variant of two_chars: a long modifier is reported and kept whole
two_chars_kept(s_val) == s_val

\* lines 350-357: clean_val and its steps
drop_point_zero(s_val) == IF endswith(s_val, ".0") THEN SubSeq(s_val, 1, Len(s_val) - 2) ELSE s_val
two_chars(s_val) == IF s_val # "" /\ Len(s_val) > 2 THEN prefix(s_val, 2) ELSE s_val
none_if_empty(s_val) == IF s_val # "" /\ lower(s_val) # "nan" THEN s_val ELSE None
clean_val(val, is_modifier) ==
    IF is_modifier
    THEN none_if_empty(two_chars(drop_point_zero(strip(str(IF ~isna(val) THEN val ELSE "")))))
    ELSE none_if_empty(strip(str(IF ~isna(val) THEN val ELSE "")))

create_service_line_payload(sld, start_dt_api_str, end_dt_api_str) ==
    LET pc_ == strip(str(sld.Procedures))
        u == sld.Units
        d1_val == sld.Diag1
        uf == float(u)
        d1_cleaned == clean_val(d1_val, FALSE)
    IN IF pc_ = "" THEN NoPayload
       ELSE IF isna(u) \/ strip(str(u)) = "" THEN NoPayload
       ELSE IF isna(d1_val) \/ strip(str(d1_val)) = "" THEN NoPayload
       ELSE IF ~uf.ok \/ uf.val <= 0 THEN NoPayload
       ELSE IF d1_cleaned = None THEN NoPayload
       ELSE [ok |-> TRUE,
             ProcedureCode |-> pc_, Units |-> uf.val,
             ServiceStartDate |-> start_dt_api_str, ServiceEndDate |-> end_dt_api_str,
             DiagnosisCode1 |-> d1_cleaned,
             ProcedureModifier1 |-> clean_val(sld.Mod1, TRUE),
             ProcedureModifier2 |-> clean_val(sld.Mod2, TRUE),
             DiagnosisCode2 |-> clean_val(sld.Diag2, FALSE),
             DiagnosisCode3 |-> clean_val(sld.Diag3, FALSE),
             DiagnosisCode4 |-> clean_val(sld.Diag4, FALSE)]

(***************************************************************************)
(* parse_and_simplify_tebra_xml_error                                      *)
(***************************************************************************)
\* the least position of a set of positions, 0 when there is none
first_hit(hits) == IF hits = {} THEN 0 ELSE CHOOSE i \in hits : \A j \in hits : i <= j

\* s.find(p, from): the first position >= from at which p occurs, 0 if none
find(s, p, from) ==
    first_hit({i \in from..(Len(s) - Len(p) + 1) : SubSeq(s, i, i + Len(p) - 1) = p})

startswith_at(s, p, i) == i >= 1 /\ i + Len(p) - 1 <= Len(s) /\ SubSeq(s, i, i + Len(p) - 1) = p

\* the end of the run of digits that starts at i (i - 1 when there is none)
digits_end(s, i) ==
    first_hit({j \in i..(Len(s) + 1) : j > Len(s) \/ ~IsDigitChar(Char(s, j))}) - 1

NoMatch == [ok |-> FALSE, num |-> "", val |-> "", msg |-> "", end |-> 0]

\* a match at position i of
\*   <TAG(\d)>([^<]+?)<err id="\d+">([^<]+)</err>
\* where TAG is DiagnosisCode or ProcedureModifier: n is the position of the
\* digit, k that of the "<" that ends the value, de that of the last digit of
\* the id, e that of the "<" that ends the message
field_error_at(s, n, k, de, e) ==
    IF /\ k > n + 2
       /\ startswith_at(s, "<err id=\"", k)
       /\ de >= k + Len("<err id=\"")
       /\ startswith_at(s, "\">", de + 1)
       /\ e > de + 3
       /\ startswith_at(s, "</err>", e)
    THEN [ok |-> TRUE, num |-> Char(s, n), val |-> SubSeq(s, n + 2, k - 1),
          msg |-> SubSeq(s, de + 3, e - 1), end |-> e + Len("</err>")]
    ELSE NoMatch
field_error_id(s, n, k, de) == field_error_at(s, n, k, de, find(s, "<", de + 3))
field_error_value(s, n, k) == field_error_id(s, n, k, digits_end(s, k + Len("<err id=\"")))
match_field_error(s, i, tag) ==
    IF /\ startswith_at(s, "<" \o tag, i)
       /\ i + Len(tag) + 1 <= Len(s) /\ IsDigitChar(Char(s, i + Len(tag) + 1))
       /\ startswith_at(s, ">", i + Len(tag) + 2)
    THEN field_error_value(s, i + Len(tag) + 1, find(s, "<", i + Len(tag) + 3))
    ELSE NoMatch

\* re.finditer of that pattern: the successive matches, left to right
RECURSIVE field_errors(_, _, _)
field_errors_after(s, tag, mt) == <<mt>> \o field_errors(s, mt.end, tag)
field_errors_at(s, tag, i) ==
    IF i = 0 THEN <<>> ELSE field_errors_after(s, tag, match_field_error(s, i, tag))
field_errors(s, from, tag) ==
    field_errors_at(s, tag, first_hit({i \in from..Len(s) : match_field_error(s, i, tag).ok}))

\* re.findall(r"<ServiceLine>(.*?)</ServiceLine>", s, re.DOTALL)
RECURSIVE service_lines_xml(_, _)
service_line_between(s, a, b) ==
    IF a = 0 \/ b = 0 THEN <<>>
    ELSE <<SubSeq(s, a + Len("<ServiceLine>"), b - 1)>>
         \o service_lines_xml(s, b + Len("</ServiceLine>"))
service_line_from(s, a) ==
    service_line_between(s, a, IF a = 0 THEN 0
                               ELSE find(s, "</ServiceLine>", a + Len("<ServiceLine>")))
service_lines_xml(s, from) == service_line_from(s, find(s, "<ServiceLine>", from))

\* re.search(r"<ProcedureCode>([^<]+)</ProcedureCode>", s), "N/A" without a match
proc_code_match(s, i) ==
    /\ startswith_at(s, "<ProcedureCode>", i)
    /\ find(s, "<", i + Len("<ProcedureCode>")) > i + Len("<ProcedureCode>")
    /\ startswith_at(s, "</ProcedureCode>", find(s, "<", i + Len("<ProcedureCode>")))
proc_code_at(s, i) ==
    IF i = 0 THEN "N/A"
    ELSE SubSeq(s, i + Len("<ProcedureCode>"), find(s, "<", i + Len("<ProcedureCode>")) - 1)
proc_code_of(s) == proc_code_at(s, first_hit({i \in 1..Len(s) : proc_code_match(s, i)}))

\* err_msg.split(',')[0].strip()
simple_msg(err_msg) ==
    strip(IF IndexOf(",", err_msg) = 0 THEN err_msg
          ELSE SubSeq(err_msg, 1, IndexOf(",", err_msg) - 1))

\* lines 417 and 423-425: the sentence of a diagnosis error, of a modifier error
diag_error_text(head, mt) ==
    head \o "Diag " \o mt.num \o " ('" \o mt.val \o "') - " \o simple_msg(mt.msg) \o "."
mod_error_text(head, mt) ==
    head \o "Mod " \o mt.num \o " ('" \o mt.val \o "') - " \o simple_msg(mt.msg) \o "."
         \o (IF contains(mt.val, ".0")
             THEN " (Note: Modifiers should be 2 chars, e.g., '59' not '59.0')."
             ELSE "")

\* the sentences of one service line: its diagnosis errors, then its modifier errors
line_error_texts(head, diags, mods) ==
    [i \in 1..Len(diags) |-> diag_error_text(head, diags[i])]
    \o [i \in 1..Len(mods) |-> mod_error_text(head, mods[i])]
line_errors(sl_xml_content, sl_counter_for_log) ==
    line_error_texts("L" \o IntToStr(sl_counter_for_log) \o " (Proc "
                         \o proc_code_of(sl_xml_content) \o "): ",
                     field_errors(sl_xml_content, 1, "DiagnosisCode"),
                     field_errors(sl_xml_content, 1, "ProcedureModifier"))

RECURSIVE all_line_errors(_, _)
all_line_errors(lines, k) ==
    IF k > Len(lines) THEN <<>>
    ELSE line_errors(lines[k], k) \o all_line_errors(lines, k + 1)

\* re.search(r'<err id="6100">(.*?)</err>', s): '.' stops at a line break,
\* which the messages of the model do not contain
overall_error_match(s, i) ==
    startswith_at(s, "<err id=\"6100\">", i) /\ find(s, "</err>", i + Len("<err id=\"6100\">")) # 0
overall_error_at(s, i) ==
    IF i = 0 THEN [ok |-> FALSE, text |-> ""]
    ELSE [ok |-> TRUE,
          text |-> SubSeq(s, i + Len("<err id=\"6100\">"),
                          find(s, "</err>", i + Len("<err id=\"6100\">")) - 1)]
overall_encounter_error(s) ==
    overall_error_at(s, first_hit({i \in 1..Len(s) : overall_error_match(s, i)}))

\* the orders in which list(set(errors)) may come out
RECURSIVE Orderings(_)
Orderings(S) ==
    IF S = {} THEN {<<>>}
    ELSE UNION {{<<x>> \o t : t \in Orderings(S \ {x})} : x \in S}

\* lines 428-438: the general error stands in when no line error was found;
\* the values returned (more than one only through the order of list(set(...)))
simplified(xml, per_line, overall) ==
    IF per_line # <<>>
    THEN {join("; ", o) : o \in Orderings({per_line[i] : i \in 1..Len(per_line)})}
    ELSE IF overall.ok THEN {"Encounter Creation Failed: " \o strip(overall.text) \o "."}
    ELSE IF startswith(xml, "<Encounter")
    THEN {"Encounter creation failed. No specific line errors parsed. Review raw API response."}
    ELSE {xml}

\* lines 399-438
simplify_xml(xml) ==
    simplified(xml, all_line_errors(service_lines_xml(xml, 1), 1), overall_encounter_error(xml))

\* the values parse_and_simplify_tebra_xml_error may return for xml_string
parse_and_simplify_tebra_xml_error(xml_string) ==
    IF xml_string = "" \/ xml_string = None \/ ~contains(xml_string, "<Encounter")
    THEN {xml_string}
    ELSE IF startswith(xml_string, "API Error: ")
    THEN simplify_xml(strip(SubSeq(xml_string, Len("API Error: ") + 1, Len(xml_string))))
    ELSE simplify_xml(xml_string)

(***************************************************************************)
(* process_excel_data: one encounter group                                 *)
(***************************************************************************)
\* the CreateEncounter exchange: kind is "Fault" (SoapFault raised, text and
\* code its message and code), "Exception" (any other exception, code its type
\* name), "Error" (ErrorResponse.IsError, text its ErrorMessage),
\* "Unauthorized" (text the SecurityResult), "ErrorUnauthorized" (both, text
\* the ErrorMessage and code the SecurityResult) or "Ok" (text the serialized
\* response); EncounterID is NoId when the response carries none
EncounterResponse(kind, text, code, id) ==
    [kind |-> kind, text |-> text, code |-> code, EncounterID |-> id]

\* what the processing of one group yields: the status and the possible
\* messages written to its rows, the session state, the lookups made (with
\* the remote calls each issued) and the CreateEncounter requests sent
GroupOutcome(status, messages, ss, lookups, sent) ==
    [status |-> status, messages |-> messages, ss |-> ss, lookups |-> lookups, sent |-> sent]

Lookup(kind, name, r) == [kind |-> kind, name |-> name, ret |-> r.ret, calls |-> r.calls]

\* line 606: the sentence for a line whose payload could not be built
line_error_text(sld) ==
    "SvcLine for Proc '" \o str(sld.Procedures) \o "' (orig Excel row "
    \o IntToStr(sld.original_excel_row_num) \o ") failed creation."

\* lines 600-608: each line of the group with the payload built for it
built_lines(sl_to_proc_list, enc_start_dt_api, enc_end_dt_api) ==
    [i \in 1..Len(sl_to_proc_list) |->
        [sld |-> sl_to_proc_list[i],
         sl_obj |-> create_service_line_payload(sl_to_proc_list[i], enc_start_dt_api,
                                                enc_end_dt_api)]]

\* lines 610-611: the two checks that follow the loop over the lines
checked_lines(all_sl_objs, line_errors_grp) ==
    IF line_errors_grp # <<>>
    THEN [ok |-> FALSE, lines |-> <<>>,
          error |-> "Service Line Payload Errors: " \o join("; ", line_errors_grp)]
    ELSE IF all_sl_objs = <<>>
    THEN [ok |-> FALSE, lines |-> <<>>,
          error |-> "No valid service lines were created for this encounter."]
    ELSE [ok |-> TRUE, lines |-> all_sl_objs, error |-> ""]

payloads_of(built) == [k \in 1..Len(built) |-> built[k].sl_obj]
errors_of(built) == [k \in 1..Len(built) |-> line_error_text(built[k].sld)]
collect_lines(built) ==
    checked_lines(payloads_of(SelectSeq(built, LAMBDA b : b.sl_obj.ok)),
                  errors_of(SelectSeq(built, LAMBDA b : ~b.sl_obj.ok)))

\* lines 598-611: the service lines of the group, or the ValueError raised
BuildServiceLines(sl_to_proc_list, enc_start_dt_api, enc_end_dt_api) ==
    collect_lines(built_lines(sl_to_proc_list, enc_start_dt_api, enc_end_dt_api))

\* lines 629 and 631: the flags of a response
IsError(api_resp) == api_resp.kind \in {"Error", "ErrorUnauthorized"}
Authorized(api_resp) == api_resp.kind \notin {"Unauthorized", "ErrorUnauthorized"}

\* lines 642-646: the message for an exception the call raised
raised_message(api_resp) ==
    IF api_resp.kind = "Fault"
    THEN "SOAP FAULT: " \o api_resp.text \o " (Code: " \o api_resp.code \o ")"
    ELSE "UNEXPECTED SCRIPT ERROR: " \o api_resp.code \o " - " \o prefix(api_resp.text, 150)

\* a faulty variant of InterpretResponse: an encounter identifier is looked
\* for first
InterpretResponse_id_first(api_resp) ==
    IF api_resp.kind \in {"Fault", "Exception"}
    THEN [status |-> "Failed", messages |-> {raised_message(api_resp)}]
    ELSE IF api_resp.EncounterID # NoId
    THEN [status |-> "Done", messages |-> {IntToStr(api_resp.EncounterID)}]
    ELSE IF IsError(api_resp)
    THEN [status |-> "Failed", messages |-> parse_and_simplify_tebra_xml_error(api_resp.text)]
    ELSE IF ~Authorized(api_resp)
    THEN [status |-> "Failed", messages |-> {"API Auth Error: " \o api_resp.text}]
    ELSE [status |-> "Failed",
          messages |-> {"Unknown API response: " \o prefix(api_resp.text, 250) \o "..."}]

\* lines 629-646: the status and the possible messages for a response
InterpretResponse(api_resp) ==
    IF api_resp.kind \in {"Fault", "Exception"}
    THEN [status |-> "Failed", messages |-> {raised_message(api_resp)}]
    ELSE IF IsError(api_resp)
    THEN [status |-> "Failed", messages |-> parse_and_simplify_tebra_xml_error(api_resp.text)]
    ELSE IF ~Authorized(api_resp)
    THEN [status |-> "Failed",
          messages |-> {"API Auth Error: "
                        \o (IF api_resp.kind = "Unauthorized" THEN api_resp.text
                            ELSE api_resp.code)}]
    ELSE IF api_resp.EncounterID # NoId
    THEN [status |-> "Done", messages |-> {IntToStr(api_resp.EncounterID)}]
    ELSE [status |-> "Failed",
          messages |-> {"Unknown API response: " \o prefix(api_resp.text, 250) \o "..."}]

\* a ValueError raised before the request is complete
Raise(msg, ss, lookups) ==
    [ok |-> FALSE, error |-> msg, ss |-> ss, lookups |-> lookups, request |-> <<>>]

\* a faulty variant of resolve_parties: a location that is not found is left
\* out of the request instead of failing the group
resolve_parties_location_optional(ss, rp_name, loc_name, sch_p_name, rp, loc, sch) ==
    IF rp_name = ""
    THEN Raise("'" \o COL_RENDERING_PROVIDER \o "' missing.", ss, <<>>)
    ELSE IF ~Truthy(rp.ret)
    THEN Raise("Active Provider ID not found for '" \o rp_name \o "'.", rp.ss,
               <<Lookup("provider", rp_name, rp)>>)
    ELSE IF loc_name = ""
    THEN Raise("'" \o COL_LOCATION \o "' missing.", rp.ss, <<Lookup("provider", rp_name, rp)>>)
    ELSE [ok |-> TRUE, error |-> "", ss |-> loc.ss,
          lookups |-> <<Lookup("provider", rp_name, rp), Lookup("location", loc_name, loc)>>,
          rp_id |-> rp.ret, loc_id |-> IF Truthy(loc.ret) THEN loc.ret ELSE NoId,
          sch_p_id |-> NoId]

\* a faulty variant of resolve_parties: a scheduling provider that is not
\* found fails the group like a rendering provider that is not found
resolve_parties_scheduling_required(ss, rp_name, loc_name, sch_p_name, rp, loc, sch) ==
    IF rp_name = ""
    THEN Raise("'" \o COL_RENDERING_PROVIDER \o "' missing.", ss, <<>>)
    ELSE IF ~Truthy(rp.ret)
    THEN Raise("Active Provider ID not found for '" \o rp_name \o "'.", rp.ss,
               <<Lookup("provider", rp_name, rp)>>)
    ELSE IF loc_name = ""
    THEN Raise("'" \o COL_LOCATION \o "' missing.", rp.ss, <<Lookup("provider", rp_name, rp)>>)
    ELSE IF ~Truthy(loc.ret)
    THEN Raise("Location ID not found for '" \o loc_name \o "'.", loc.ss,
               <<Lookup("provider", rp_name, rp), Lookup("location", loc_name, loc)>>)
    ELSE IF sch_p_name # "" /\ ~Truthy(sch.ret)
    THEN Raise("Active Provider ID not found for '" \o sch_p_name \o "'.", sch.ss,
               <<Lookup("provider", rp_name, rp), Lookup("location", loc_name, loc),
                 Lookup("provider", sch_p_name, sch)>>)
    ELSE IF sch_p_name # ""
    THEN [ok |-> TRUE, error |-> "", ss |-> sch.ss,
          lookups |-> <<Lookup("provider", rp_name, rp), Lookup("location", loc_name, loc),
                        Lookup("provider", sch_p_name, sch)>>,
          rp_id |-> rp.ret, loc_id |-> loc.ret, sch_p_id |-> sch.ret]
    ELSE [ok |-> TRUE, error |-> "", ss |-> loc.ss,
          lookups |-> <<Lookup("provider", rp_name, rp), Lookup("location", loc_name, loc)>>,
          rp_id |-> rp.ret, loc_id |-> loc.ret, sch_p_id |-> NoId]

\* lines 560-575: the rendering provider, the location and the scheduling
\* provider are resolved.  rp, loc and sch are what get_provider_id_by_name,
\* get_location_id_by_name and get_provider_id_by_name hand back when called at
\* lines 562, 567 and 573, in that order, each on the session state the one
\* before left
resolve_parties(ss, rp_name, loc_name, sch_p_name, rp, loc, sch) ==
    IF rp_name = ""
    THEN Raise("'" \o COL_RENDERING_PROVIDER \o "' missing.", ss, <<>>)
    ELSE IF ~Truthy(rp.ret)
    THEN Raise("Active Provider ID not found for '" \o rp_name \o "'.", rp.ss,
               <<Lookup("provider", rp_name, rp)>>)
    ELSE IF loc_name = ""
    THEN Raise("'" \o COL_LOCATION \o "' missing.", rp.ss, <<Lookup("provider", rp_name, rp)>>)
    ELSE IF ~Truthy(loc.ret)
    THEN Raise("Location ID not found for '" \o loc_name \o "'.", loc.ss,
               <<Lookup("provider", rp_name, rp), Lookup("location", loc_name, loc)>>)
    ELSE IF sch_p_name # ""
    THEN [ok |-> TRUE, error |-> "", ss |-> sch.ss,
          lookups |-> <<Lookup("provider", rp_name, rp), Lookup("location", loc_name, loc),
                        Lookup("provider", sch_p_name, sch)>>,
          rp_id |-> rp.ret, loc_id |-> loc.ret,
          sch_p_id |-> IF Truthy(sch.ret) THEN sch.ret ELSE NoId]
    ELSE [ok |-> TRUE, error |-> "", ss |-> loc.ss,
          lookups |-> <<Lookup("provider", rp_name, rp), Lookup("location", loc_name, loc)>>,
          rp_id |-> rp.ret, loc_id |-> loc.ret, sch_p_id |-> NoId]

\* line 577
batch_number(val) == IF ~isna(val) THEN strip(str(val)) ELSE None

\* lines 579-582: the start and the end of the encounter
encounter_dates(enc_start_dt_api, enc_end_dt_api) ==
    [start |-> enc_start_dt_api,
     end |-> IF enc_end_dt_api = None \/ enc_end_dt_api = "" THEN enc_start_dt_api
             ELSE enc_end_dt_api]

\* lines 590-596: the place of service, from its own column or else from the
\* encounter mode
place_of_service(pos_excel_val, enc_mode_val) ==
    IF pos_excel_val = "" /\ enc_mode_val = ""
    THEN [ok |-> FALSE, pos_pyld |-> NoPayload,
          error |-> "Both '" \o COL_PLACE_OF_SERVICE_EXCEL \o "' & '" \o COL_ENCOUNTER_MODE
                    \o "' are missing."]
    ELSE IF pos_excel_val = ""
    THEN [ok |-> create_place_of_service_payload(enc_mode_val).ok,
          pos_pyld |-> create_place_of_service_payload(enc_mode_val),
          error |-> "POS payload creation failed for '" \o enc_mode_val \o "'."]
    ELSE [ok |-> create_place_of_service_payload(pos_excel_val).ok,
          pos_pyld |-> create_place_of_service_payload(pos_excel_val),
          error |-> "POS payload creation failed for '" \o pos_excel_val \o "'."]

\* lines 613-624: the encounter of the request
encounter_args(grp_key, parties, dates, pos, sls, batch_num_val) ==
    [Patient |-> grp_key.pid, RenderingProvider |-> parties.rp_id,
     ServiceLocation |-> parties.loc_id,
     PlaceOfService |-> pos.pos_pyld.PlaceOfServiceCode,
     ServiceStartDate |-> dates.start, ServiceEndDate |-> dates.end,
     ServiceLines |-> sls.lines, Practice |-> current_practice_id,
     EncounterStatus |-> "Draft", Case |-> grp_key.cid,
     SchedulingProvider |-> parties.sch_p_id,
     BatchNumber |-> IF batch_num_val # None /\ batch_num_val # "" THEN batch_num_val ELSE None]

\* lines 559-624 in their order: the first step that raises ends the attempt
assemble(grp_key, parties, dates, pos, sls, batch_num_val) ==
    IF ~parties.ok THEN Raise(parties.error, parties.ss, parties.lookups)
    ELSE IF dates.start = None
    THEN Raise("Encounter '" \o COL_FROM_DATE \o "' invalid for group (key: "
               \o grp_key.dos \o ").", parties.ss, parties.lookups)
    ELSE IF ~pos.ok THEN Raise(pos.error, parties.ss, parties.lookups)
    ELSE IF ~sls.ok THEN Raise(sls.error, parties.ss, parties.lookups)
    ELSE [ok |-> TRUE, error |-> "", ss |-> parties.ss, lookups |-> parties.lookups,
          request |-> encounter_args(grp_key, parties, dates, pos, sls, batch_num_val)]

with_dates(grp_key, enc_src_dict, sl_to_proc_list, parties, dates) ==
    assemble(grp_key, parties, dates,
             place_of_service(strip(str(enc_src_dict.PlaceOfService)),
                              strip(str(enc_src_dict.EncounterMode))),
             BuildServiceLines(sl_to_proc_list, dates.start, dates.end),
             batch_number(enc_src_dict.BatchNumber))

\* lines 559-624: everything up to the CreateEncounter call: the request
\* built, or the message of the ValueError raised on the way
prepare_encounter(ss, grp_key, data_dict, rp, loc, sch) ==
    with_dates(grp_key, data_dict.encounter_details_source_row_dict,
               data_dict.service_lines_data_list,
               resolve_parties(ss, strip(str(data_dict.encounter_details_source_row_dict.RenderingProvider)),
                               strip(str(data_dict.encounter_details_source_row_dict.Location)),
                               strip(str(data_dict.encounter_details_source_row_dict.SchedulingProvider)),
                               rp, loc, sch),
               encounter_dates(
                   format_datetime_for_api(data_dict.encounter_details_source_row_dict.FromDate),
                   format_datetime_for_api(data_dict.encounter_details_source_row_dict.ThroughDate)))

(***************************************************************************)
(* The input sheets                                                        *)
(***************************************************************************)
\* the longest sheet
MaxRows == 2

\* a charge line that is complete and well formed
BaseRow ==
    [PatientID |-> "1", FromDate |-> "2024-01-05", ThroughDate |-> NaN,
     RenderingProvider |-> "Dr A", SchedulingProvider |-> NaN, Location |-> "Main",
     PlaceOfService |-> "OFFICE", EncounterMode |-> NaN, Procedures |-> "99213",
     Mod1 |-> NaN, Mod2 |-> NaN, Units |-> "1", Diag1 |-> "J01", Diag2 |-> NaN,
     Diag3 |-> NaN, Diag4 |-> NaN, BatchNumber |-> NaN]

\* the lines a sheet is made of: the complete line and its variants
SheetRows ==
    { BaseRow,
      \* the same visit, later that day; the same without its first diagnosis
      [BaseRow EXCEPT !.FromDate = "2024-01-05 10:30:00"],
      [BaseRow EXCEPT !.FromDate = "2024-01-05 10:30:00", !.Diag1 = NaN],
      \* no units
      [BaseRow EXCEPT !.Units = "0"],
      \* another patient, same provider and location
      [BaseRow EXCEPT !.PatientID = "2"],
      \* the same patient on another day
      [BaseRow EXCEPT !.FromDate = "2024-02-10"],
      \* patient id empty, blank, not a number
      [BaseRow EXCEPT !.PatientID = NaN],
      [BaseRow EXCEPT !.PatientID = " "],
      [BaseRow EXCEPT !.PatientID = "abc"],
      [BaseRow EXCEPT !.PatientID = "abc", !.FromDate = NaN],
      \* date of service not a date
      [BaseRow EXCEPT !.FromDate = "soon"],
      \* place of service and encounter mode both empty, both blank
      [BaseRow EXCEPT !.PlaceOfService = NaN, !.EncounterMode = NaN],
      [BaseRow EXCEPT !.PlaceOfService = " ", !.EncounterMode = " "],
      \* modifiers as a spreadsheet gives them, with a scheduling provider that
      \* is not in the practice and with one that is
      [BaseRow EXCEPT !.Mod1 = "59.0", !.Mod2 = "ABC", !.SchedulingProvider = "Dr A Brown MD"],
      [BaseRow EXCEPT !.Mod1 = ".0", !.Mod2 = " 25 ", !.SchedulingProvider = "Dr A"],
      \* no rendering provider; no location
      [BaseRow EXCEPT !.RenderingProvider = " "],
      [BaseRow EXCEPT !.Location = " "] }

RECURSIVE SeqsUpTo(_, _)
SeqsUpTo(S, n) ==
    IF n = 0 THEN {<<>>}
    ELSE LET shorter == SeqsUpTo(S, n - 1)
         IN shorter \cup {Append(t, x) : t \in {u \in shorter : Len(u) = n - 1}, x \in S}

Sheets == SeqsUpTo(SheetRows, MaxRows)

\* main, lines 727-730: the sheet as a DataFrame, each row under its index
\* label, with the column original_excel_row_num added
original_excel_row_num_start == 2
read_excel(sheet) ==
    [i \in 1..Len(sheet) |->
        [f \in DOMAIN sheet[i] \cup {"index", "original_excel_row_num"} |->
            IF f = "index" THEN i - 1
            ELSE IF f = "original_excel_row_num" THEN original_excel_row_num_start + i - 1
            ELSE sheet[i][f]]]

(***************************************************************************)
(* What the remote service may answer                                      *)
(***************************************************************************)
Provider(id, full_name, active) == [ID |-> id, FullName |-> full_name, Active |-> active]
Location(id, name) == [ID |-> id, Name |-> name]
PatientCase(id, primary) == [PatientCaseID |-> id, IsPrimaryCase |-> primary]

GetPatientResponses ==
    { Response("Fault", <<>>), Response("Error", <<>>), Response("Unauthorized", <<>>),
      Response("Ok", <<>>),
      Response("Ok", <<PatientCase(501, ActiveFalse), PatientCase(502, "true")>>),
      \* no case flagged primary; the same with a first case that has no id
      Response("Ok", <<PatientCase(502, ActiveFalse), PatientCase(504, ActiveFalse)>>),
      Response("Ok", <<PatientCase(NoId, ActiveFalse), PatientCase(505, ActiveFalse)>>) }

GetProvidersExactResponses ==
    { Response("Fault", <<>>), Response("Error", <<>>),
      Response("Ok", <<Provider(100, "Dr A", ActiveFalse), Provider(101, "DR A", ActiveTrue)>>) }

GetProvidersBroadResponses ==
    { Response("Unauthorized", <<>>),
      Response("Ok", <<Provider(103, "Dr Brown", ActiveTrue), Provider(102, "Adams, Dr", "True")>>) }

GetServiceLocationsResponses ==
    { Response("Fault", <<>>), Response("Error", <<>>),
      Response("Ok", <<Location(300, "Annex"), Location(301, "MAIN ")>>) }

\* n is the number of encounters the service was asked to create before, so
\* that each encounter it creates gets an identifier of its own
CreateEncounterResponses(n) ==
    { EncounterResponse("Fault", "Unknown fault occured", "s:Client", NoId),
      EncounterResponse("Exception", "Connection reset", "TransportError", NoId),
      EncounterResponse("Error", "Invalid request", "", 9001 + n),
      EncounterResponse("Unauthorized", "Invalid user name and/or password", "", 9001 + n),
      EncounterResponse("ErrorUnauthorized", "Invalid request", "AccessDenied", NoId),
      \* error messages that carry the encounter as XML: with a service line in
      \* error, with an encounter-level error, with neither, and with neither
      \* after the prefix "API Error: "
      EncounterResponse("Error",
          "<Encounter><ServiceLine><ProcedureCode>99213</ProcedureCode><DiagnosisCode1>J01"
          \o "<err id=\"1\">Invalid code, see list</err></DiagnosisCode1></ServiceLine></Encounter>",
          "", NoId),
      EncounterResponse("Error", "<Encounter><err id=\"6100\">Bad case</err></Encounter>", "", NoId),
      EncounterResponse("Error", "<Encounter><Case>7</Case></Encounter>", "", NoId),
      EncounterResponse("Error", "API Error: rejected <Encounter>", "", NoId),
      EncounterResponse("Ok", "{'EncounterID': None}", "", NoId),
      EncounterResponse("Ok", "", "", 9001 + n) }

\* InterpretResponse of every answer the service may give to a request
Interpreted ==
    [api_resp \in UNION {CreateEncounterResponses(n) : n \in 0..MaxRows} \cup
                  {EncounterResponse("None", "", "", NoId)} |->
        InterpretResponse(api_resp)]

\* a faulty variant of process_group: a request the service answers with a
\* fault or a rejection is sent a second time
process_group_resending(prep, api_resp) ==
    IF ~prep.ok
    THEN GroupOutcome("Failed", {prep.error}, prep.ss, prep.lookups, <<>>)
    ELSE LET answer == Interpreted[api_resp]
             call == [request |-> prep.request, response |-> api_resp]
         IN GroupOutcome(answer.status, answer.messages, prep.ss, prep.lookups,
                         IF api_resp.kind \in {"Fault", "Error"} THEN <<call, call>>
                         ELSE <<call>>)

\* lines 549-646: the body of the loop over the groups: the request is
\* prepared and, unless that raised, sent; api_resp is the service's answer
process_group(prep, api_resp) ==
    IF ~prep.ok
    THEN GroupOutcome("Failed", {prep.error}, prep.ss, prep.lookups, <<>>)
    ELSE LET answer == Interpreted[api_resp]
         IN GroupOutcome(answer.status, answer.messages, prep.ss, prep.lookups,
                         <<[request |-> prep.request, response |-> api_resp]>>)

(***************************************************************************)
(* State                                                                   *)
(***************************************************************************)
VARIABLES
    pc,                \* where the run stands
    session_state,     \* st.session_state: survives from run to run
    df_excel_data,     \* the input table
    df_results,        \* the result table: the input rows with status and message
    grouped_charges,   \* the encounter groups, in order of creation
    grouping_warnings, \* the reasons of the rows that failed to group
    df_idx,            \* position of the next row of the grouping loop
    proc_grp_cnt,      \* groups processed so far
    success_groups,
    fail_groups,
    returned,          \* <<>> or <<the tuple process_excel_data returned>>
    lookups,           \* the resolver calls of this run, with the remote calls of each
    encounters_sent,   \* the CreateEncounter requests of this run, each with its group key
    api_response       \* what the remote service answered to the lookup in hand

vars == <<pc, session_state, df_excel_data, df_results, grouped_charges, grouping_warnings,
          df_idx, proc_grp_cnt, success_groups, fail_groups, returned, lookups,
          encounters_sent, api_response>>

\* the keys of the run-scoped caches
IsCacheKey(k) ==
    startswith(k, "provider_id_") \/ startswith(k, "location_id_") \/ startswith(k, "patient_case_")

\* del st.session_state[k] for the keys that satisfy drop
clear_keys(ss, drop(_)) == [k \in {x \in DOMAIN ss : ~drop(x)} |-> ss[k]]

practice_cache_key == "practice_id_Pediatrics West"

\* a faulty variant of loc_set: the row is looked up by its sheet row number
\* instead of its index label, and .loc enlarges the table when no row carries
\* the label
loc_set_enlarging(df, label, status, message) ==
    IF \E i \in 1..Len(df) : df[i].row.original_excel_row_num = label
    THEN [i \in 1..Len(df) |->
            IF df[i].row.original_excel_row_num = label
            THEN [df[i] EXCEPT !.Status = status, !.Message = message]
            ELSE df[i]]
    ELSE Append(df, [row |-> [index |-> label, original_excel_row_num |-> label],
                     Status |-> status, Message |-> message])

\* df.loc[label, ['Charge Entry Status', COL_RESULT_MESSAGE]] = status, message
loc_set(df, label, status, message) ==
    [i \in 1..Len(df) |->
        IF df[i].row.index = label
        THEN [df[i] EXCEPT !.Status = status, !.Message = message]
        ELSE df[i]]

RECURSIVE loc_set_all(_, _, _, _)
loc_set_all(df, labels, status, message) ==
    IF labels = <<>> THEN df
    ELSE loc_set_all(loc_set(df, Head(labels), status, message), Tail(labels), status, message)

\* .reindex(columns=...).fillna(''): the columns kept, empty cells as ''
output_table(df, dropped) ==
    [i \in 1..Len(df) |->
        [index |-> df[i].row.index,
         cells |-> [f \in (DOMAIN df[i].row) \ ({"index"} \cup dropped) |->
                        IF f = "original_excel_row_num" THEN df[i].row[f]
                        ELSE IF df[i].row[f] = NaN THEN "" ELSE df[i].row[f]],
         Status |-> df[i].Status,
         Message |-> df[i].Message]]

Init ==
    /\ pc = "idle"
    /\ session_state = ("original_excel_row_num_start" :> original_excel_row_num_start)
    /\ df_excel_data = <<>>
    /\ df_results = <<>>
    /\ grouped_charges = <<>>
    /\ grouping_warnings = <<>>
    /\ df_idx = 1
    /\ proc_grp_cnt = 0
    /\ success_groups = 0
    /\ fail_groups = 0
    /\ returned = <<>>
    /\ lookups = <<>>
    /\ encounters_sent = <<>>
    /\ api_response = NoCaseAnswer

(***************************************************************************)
(* main: the operator presses "Process Charges" with a sheet uploaded      *)
(***************************************************************************)
\* a faulty variant of main: the caches of the run before are kept, here and
\* at the start of process_excel_data
main_keeping_caches ==
    /\ pc = "idle"
    /\ \E sheet \in Sheets :
          df_excel_data' = read_excel(sheet)
    /\ session_state' = Store(session_state, practice_cache_key, current_practice_id)
    /\ pc' = "grouping"
    /\ df_results' = [i \in 1..Len(df_excel_data') |->
                         [row |-> df_excel_data'[i], Status |-> "Pending", Message |-> ""]]
    /\ grouped_charges' = <<>>
    /\ grouping_warnings' = <<>>
    /\ df_idx' = 1
    /\ proc_grp_cnt' = 0
    /\ success_groups' = 0
    /\ fail_groups' = 0
    /\ returned' = <<>>
    /\ lookups' = <<>>
    /\ encounters_sent' = <<>>
    /\ api_response' = NoCaseAnswer

main ==
    /\ pc = "idle"
    /\ \E sheet \in Sheets :
          df_excel_data' = read_excel(sheet)
    /\ session_state' =
          Store(clear_keys(session_state, LAMBDA k : startswith(k, "practice_id_") \/ IsCacheKey(k)),
                practice_cache_key, current_practice_id)
    /\ pc' = "start"
    /\ df_results' = <<>>
    /\ grouped_charges' = <<>>
    /\ grouping_warnings' = <<>>
    /\ df_idx' = 1
    /\ proc_grp_cnt' = 0
    /\ success_groups' = 0
    /\ fail_groups' = 0
    /\ returned' = <<>>
    /\ lookups' = <<>>
    /\ encounters_sent' = <<>>
    /\ api_response' = NoCaseAnswer

(***************************************************************************)
(* process_excel_data                                                      *)
(***************************************************************************)
\* lines 446-448
pending_results(df) == [i \in 1..Len(df) |-> [row |-> df[i], Status |-> "Pending", Message |-> ""]]

\* lines 446-474: the result table is set up and the caches are cleared
begin_processing ==
    /\ pc = "start"
    /\ df_results' = pending_results(df_excel_data)
    /\ session_state' = clear_keys(session_state, IsCacheKey)
    /\ grouped_charges' = <<>>
    /\ grouping_warnings' = <<>>
    /\ df_idx' = 1
    /\ pc' = "grouping"
    /\ UNCHANGED <<df_excel_data, proc_grp_cnt, success_groups, fail_groups, returned, lookups,
                   encounters_sent, api_response>>

\* lines 446-465: the service description lacks a type; every row fails
wsdl_type_error ==
    /\ pc = "start"
    /\ LET msg == "WSDL Type Error: type not found"
           failed == [i \in 1..Len(df_excel_data) |->
                         [row |-> df_excel_data[i], Status |-> "Failed", Message |-> msg]]
       IN /\ df_results' = failed
          /\ returned' = <<[table |-> output_table(failed, {}), success_groups |-> 0,
                            fail_groups |-> 0]>>
    /\ pc' = "returned"
    /\ UNCHANGED <<session_state, df_excel_data, grouped_charges, grouping_warnings, df_idx,
                   proc_grp_cnt, success_groups, fail_groups, lookups, encounters_sent,
                   api_response>>

\* a faulty variant of validate_row: a patient id that int() rejects is not
\* caught and stands as patient 0
validate_row_no_except(row_series) ==
    IF isna(row_series.PatientID) \/ strip(str(row_series.PatientID)) = ""
    THEN [ok |-> FALSE, reason |-> "'" \o COL_PATIENT_ID \o "' is missing.", pid |-> 0, dos |-> ""]
    ELSE IF isna(row_series.FromDate) \/ strip(str(row_series.FromDate)) = ""
            \/ ~to_datetime(row_series.FromDate).ok
    THEN [ok |-> FALSE,
          reason |-> "'" \o COL_FROM_DATE \o "' (Date of Service) is missing for grouping.",
          pid |-> 0, dos |-> ""]
    ELSE [ok |-> TRUE, reason |-> "",
          pid |-> IF int(row_series.PatientID).ok THEN int(row_series.PatientID).val ELSE 0,
          dos |-> strftime_date(to_datetime(row_series.FromDate))]

\* lines 483-499: the patient id and the calendar date of a row, or the
\* reason why it cannot be grouped
validate_row(row_series) ==
    LET pid_val == row_series.PatientID
        from_date_val == row_series.FromDate
        pid_grp == int(pid_val)
        dt == to_datetime(from_date_val)
        invalid(reason) == [ok |-> FALSE, reason |-> reason, pid |-> 0, dos |-> ""]
    IN IF isna(pid_val) \/ strip(str(pid_val)) = ""
       THEN invalid("'" \o COL_PATIENT_ID \o "' is missing.")
       ELSE IF isna(from_date_val) \/ strip(str(from_date_val)) = ""
       THEN invalid("'" \o COL_FROM_DATE \o "' (Date of Service) is missing for grouping.")
       ELSE IF ~pid_grp.ok \/ ~dt.ok
       THEN invalid("Invalid format for '" \o COL_PATIENT_ID \o "' ('" \o pid_val \o "') or '"
                    \o COL_FROM_DATE \o "' ('" \o from_date_val \o "').")
       ELSE [ok |-> TRUE, reason |-> "", pid |-> pid_grp.val, dos |-> strftime_date(dt)]

GroupKey(pid, dos, cid) == [pid |-> pid, dos |-> dos, cid |-> cid]

\* a faulty variant of add_to_group: the row that joins a group becomes its
\* header
add_to_group_last_header(groups, grp_key, row_dict_for_group, idx) ==
    IF \E g \in 1..Len(groups) : groups[g].grp_key = grp_key
    THEN [g \in 1..Len(groups) |->
            IF groups[g].grp_key = grp_key
            THEN [groups[g] EXCEPT
                    !.encounter_details_source_row_dict = row_dict_for_group,
                    !.service_lines_data_list = Append(@, row_dict_for_group),
                    !.original_df_indices = Append(@, idx)]
            ELSE groups[g]]
    ELSE Append(groups, [grp_key |-> grp_key,
                         encounter_details_source_row_dict |-> row_dict_for_group,
                         service_lines_data_list |-> <<row_dict_for_group>>,
                         original_df_indices |-> <<idx>>])

\* lines 506-514: the row joins the group of its key; the first row of a key
\* founds the group and stays its header
add_to_group(groups, grp_key, row_dict_for_group, idx) ==
    IF \E g \in 1..Len(groups) : groups[g].grp_key = grp_key
    THEN [g \in 1..Len(groups) |->
            IF groups[g].grp_key = grp_key
            THEN [groups[g] EXCEPT
                    !.service_lines_data_list = Append(@, row_dict_for_group),
                    !.original_df_indices = Append(@, idx)]
            ELSE groups[g]]
    ELSE Append(groups, [grp_key |-> grp_key,
                         encounter_details_source_row_dict |-> row_dict_for_group,
                         service_lines_data_list |-> <<row_dict_for_group>>,
                         original_df_indices |-> <<idx>>])

\* a faulty variant of fail_row: the reason is written, the status is not
fail_row_message_only(df, row_series, reason) ==
    [i \in 1..Len(df) |->
        IF df[i].row.index = row_series.index THEN [df[i] EXCEPT !.Message = reason] ELSE df[i]]

\* lines 516-519: the row is marked Failed with its reason
fail_row(df, row_series, reason) == loc_set(df, row_series.index, "Failed", reason)

\* lines 480-519: one turn of the grouping loop
group_row ==
    /\ pc = "grouping"
    /\ df_idx <= Len(df_excel_data)
    /\ LET row_series == df_excel_data[df_idx]
           v == validate_row(row_series)
           warning(reason) ==
               "Row " \o IntToStr(row_series.original_excel_row_num) \o ": " \o reason
       IN IF ~v.ok
          THEN /\ df_results' = fail_row(df_results, row_series, v.reason)
               /\ grouping_warnings' = Append(grouping_warnings, warning(v.reason))
               /\ api_response' = NoCaseAnswer
               /\ UNCHANGED <<session_state, grouped_charges, lookups>>
          ELSE \E resp \in (IF case_cache_key(v.pid) \in DOMAIN session_state
                            THEN {NoResponse} ELSE GetPatientResponses) :
                 LET r == get_primary_case_for_patient(session_state, v.pid, resp)
                     reason == "No existing Tebra case found for Patient ID "
                               \o IntToStr(v.pid) \o "."
                 IN /\ session_state' = r.ss
                    /\ lookups' = Append(lookups, Lookup("case", IntToStr(v.pid), r))
                    /\ api_response' = CaseAnswer(r, resp)
                    /\ IF ~Truthy(r.ret)
                       THEN /\ df_results' = fail_row(df_results, row_series, reason)
                            /\ grouping_warnings' = Append(grouping_warnings, warning(reason))
                            /\ UNCHANGED grouped_charges
                       ELSE /\ grouped_charges' =
                                  add_to_group(grouped_charges, GroupKey(v.pid, v.dos, r.ret),
                                               row_series, row_series.index)
                            /\ UNCHANGED <<df_results, grouping_warnings>>
    /\ df_idx' = df_idx + 1
    /\ UNCHANGED <<pc, df_excel_data, proc_grp_cnt, success_groups, fail_groups, returned,
                   encounters_sent>>

\* lines 521-543: the grouping loop is over; without a group and without a
\* warning the function returns at once
end_grouping ==
    /\ pc = "grouping"
    /\ df_idx > Len(df_excel_data)
    /\ IF grouped_charges = <<>> /\ grouping_warnings = <<>>
       THEN /\ returned' = <<[table |-> output_table(df_results, {}),
                              success_groups |-> success_groups, fail_groups |-> fail_groups]>>
            /\ pc' = "returned"
       ELSE /\ pc' = "processing"
            /\ UNCHANGED returned
    /\ api_response' = NoCaseAnswer
    /\ UNCHANGED <<session_state, df_excel_data, df_results, grouped_charges, grouping_warnings,
                   df_idx, proc_grp_cnt, success_groups, fail_groups, lookups, encounters_sent>>

\* faulty variants of write_back: only the header row of the group is
\* written; every row of the table is written
write_back_header_only(df, orig_indices_list, grp_api_status, grp_api_message) ==
    loc_set(df, orig_indices_list[1], grp_api_status, grp_api_message)
write_back_every_row(df, orig_indices_list, grp_api_status, grp_api_message) ==
    [i \in 1..Len(df) |-> [df[i] EXCEPT !.Status = grp_api_status, !.Message = grp_api_message]]

\* lines 652-654: the group's status and message go to each of its rows
write_back(df, orig_indices_list, grp_api_status, grp_api_message) ==
    loc_set_all(df, orig_indices_list, grp_api_status, grp_api_message)

\* the responses the remote service may give to a provider lookup and to a
\* location lookup; a call that is not made has no response
ProviderResponses(ss, name) ==
    IF ~ProviderLookupQueries(ss, current_practice_id, name) THEN {<<NoResponse, NoResponse>>}
    ELSE UNION {IF ProviderLookupGoesBroad(name, e)
                THEN {<<e, b>> : b \in GetProvidersBroadResponses}
                ELSE {<<e, NoResponse>>} : e \in GetProvidersExactResponses}

LocationResponses(ss, name) ==
    IF LocationLookupQueries(ss, current_practice_id, name)
    THEN GetServiceLocationsResponses ELSE {NoResponse}

\* lines 648-654: the outcome of a group is counted and written to its rows
record_outcome(data_dict, out, grp_api_message) ==
    /\ session_state' = out.ss
    /\ lookups' = lookups \o out.lookups
    /\ encounters_sent' =
          encounters_sent \o
          [k \in 1..Len(out.sent) |->
              [grp_key |-> data_dict.grp_key, request |-> out.sent[k].request,
               response |-> out.sent[k].response]]
    /\ success_groups' = success_groups + (IF out.status = "Done" THEN 1 ELSE 0)
    /\ fail_groups' = fail_groups + (IF out.status = "Failed" THEN 1 ELSE 0)
    /\ df_results' = write_back(df_results, data_dict.original_df_indices, out.status,
                                grp_api_message)

\* lines 545-656: one turn of the loop over the groups
process_next_group ==
    /\ pc = "processing"
    /\ proc_grp_cnt < Len(grouped_charges)
    /\ \E data_dict \in {grouped_charges[proc_grp_cnt + 1]} :
       \E rp_name \in {strip(str(data_dict.encounter_details_source_row_dict.RenderingProvider))} :
       \E loc_name \in {strip(str(data_dict.encounter_details_source_row_dict.Location))} :
       \E sch_p_name \in
             {strip(str(data_dict.encounter_details_source_row_dict.SchedulingProvider))} :
       \E rp_resp \in ProviderResponses(session_state, rp_name) :
       \E rp \in {get_provider_id_by_name(session_state, current_practice_id, rp_name,
                                          rp_resp[1], rp_resp[2])} :
       \E loc_resp \in (IF rp_name # "" /\ Truthy(rp.ret)
                        THEN LocationResponses(rp.ss, loc_name) ELSE {NoResponse}) :
       \E loc \in {get_location_id_by_name(rp.ss, current_practice_id, loc_name, loc_resp)} :
       \E sch_resp \in (IF rp_name # "" /\ Truthy(rp.ret) /\ loc_name # "" /\ Truthy(loc.ret)
                           /\ sch_p_name # ""
                        THEN ProviderResponses(loc.ss, sch_p_name)
                        ELSE {<<NoResponse, NoResponse>>}) :
       \E sch \in {get_provider_id_by_name(loc.ss, current_practice_id, sch_p_name,
                                           sch_resp[1], sch_resp[2])} :
       \E prep \in {prepare_encounter(session_state, data_dict.grp_key, data_dict,
                                      rp, loc, sch)} :
       \E api_resp \in (IF prep.ok THEN CreateEncounterResponses(Len(encounters_sent))
                        ELSE {EncounterResponse("None", "", "", NoId)}) :
       \E out \in {process_group(prep, api_resp)} :
       \E grp_api_message \in out.messages :
          record_outcome(data_dict, out, grp_api_message)
    /\ proc_grp_cnt' = proc_grp_cnt + 1
    /\ UNCHANGED <<pc, df_excel_data, grouped_charges, grouping_warnings, df_idx, returned,
                   api_response>>

\* a faulty variant of finish: the failure of a group ends the loop over the
\* groups
finish_after_failure ==
    /\ pc = "processing"
    /\ proc_grp_cnt = Len(grouped_charges) \/ fail_groups > 0
    /\ returned' = <<[table |-> output_table(df_results, {"original_excel_row_num"}),
                      success_groups |-> success_groups, fail_groups |-> fail_groups]>>
    /\ pc' = "returned"
    /\ UNCHANGED <<session_state, df_excel_data, df_results, grouped_charges, grouping_warnings,
                   df_idx, proc_grp_cnt, success_groups, fail_groups, lookups, encounters_sent,
                   api_response>>

\* lines 658-682: the result table is returned without the column
\* original_excel_row_num
finish ==
    /\ pc = "processing"
    /\ proc_grp_cnt = Len(grouped_charges)
    /\ returned' = <<[table |-> output_table(df_results, {"original_excel_row_num"}),
                      success_groups |-> success_groups, fail_groups |-> fail_groups]>>
    /\ pc' = "returned"
    /\ UNCHANGED <<session_state, df_excel_data, df_results, grouped_charges, grouping_warnings,
                   df_idx, proc_grp_cnt, success_groups, fail_groups, lookups, encounters_sent,
                   api_response>>

\* main, lines 742-770: the results are shown and the script ends; only
\* st.session_state outlives it
show_results ==
    /\ pc = "returned"
    /\ pc' = "idle"
    /\ df_excel_data' = <<>>
    /\ df_results' = <<>>
    /\ grouped_charges' = <<>>
    /\ grouping_warnings' = <<>>
    /\ df_idx' = 1
    /\ proc_grp_cnt' = 0
    /\ success_groups' = 0
    /\ fail_groups' = 0
    /\ returned' = <<>>
    /\ lookups' = <<>>
    /\ encounters_sent' = <<>>
    /\ api_response' = NoCaseAnswer
    /\ UNCHANGED session_state

Next ==
    \/ main
    \/ begin_processing
    \/ wsdl_type_error
    \/ group_row
    \/ end_grouping
    \/ process_next_group
    \/ finish
    \/ show_results

Spec == Init /\ [][Next]_vars

(***************************************************************************)
(* Runs on sheets of one patient and one day that differ in the columns    *)
(* an encounter takes from the header row of its group                     *)
(***************************************************************************)
\* main, with the sheets made of the complete line and of lines that differ
\* from it in the place of service and the encounter mode, or in the
\* providers, the location, the batch number and the dates
main_header_rows ==
    /\ pc = "idle"
    /\ \E sheet \in SeqsUpTo(
             { BaseRow,
               [BaseRow EXCEPT !.PlaceOfService = "office "],
               [BaseRow EXCEPT !.PlaceOfService = "Telehealth"],
               [BaseRow EXCEPT !.PlaceOfService = "TELEHEALTH OFFICE"],
               [BaseRow EXCEPT !.PlaceOfService = "7"],
               [BaseRow EXCEPT !.PlaceOfService = "12"],
               [BaseRow EXCEPT !.PlaceOfService = "123"],
               [BaseRow EXCEPT !.PlaceOfService = "home"],
               [BaseRow EXCEPT !.PlaceOfService = NaN, !.EncounterMode = "TELEHEALTH"],
               [BaseRow EXCEPT !.PlaceOfService = " ", !.EncounterMode = "telehealth"],
               [BaseRow EXCEPT !.PlaceOfService = " ", !.EncounterMode = "home"],
               [BaseRow EXCEPT !.BatchNumber = "B1", !.ThroughDate = "2024-01-06"],
               [BaseRow EXCEPT !.FromDate = "2024-01-05 10:30:00", !.ThroughDate = "2024-01-07",
                               !.RenderingProvider = "Dr Nobody", !.SchedulingProvider = "Dr A",
                               !.Location = "Nowhere", !.PlaceOfService = "home",
                               !.BatchNumber = "B2"] },
             MaxRows) :
          df_excel_data' = read_excel(sheet)
    /\ session_state' =
          Store(clear_keys(session_state, LAMBDA k : startswith(k, "practice_id_") \/ IsCacheKey(k)),
                practice_cache_key, current_practice_id)
    /\ pc' = "start"
    /\ df_results' = <<>>
    /\ grouped_charges' = <<>>
    /\ grouping_warnings' = <<>>
    /\ df_idx' = 1
    /\ proc_grp_cnt' = 0
    /\ success_groups' = 0
    /\ fail_groups' = 0
    /\ returned' = <<>>
    /\ lookups' = <<>>
    /\ encounters_sent' = <<>>
    /\ api_response' = NoCaseAnswer

SpecHeaderRows ==
    Init /\ [][main_header_rows \/ begin_processing \/ wsdl_type_error \/ group_row
               \/ end_grouping \/ process_next_group \/ finish \/ show_results]_vars

(***************************************************************************)
(* get_provider_id_by_name on its own: a sequence of lookups on one cache  *)
(***************************************************************************)
\* the longest sequence of lookups
MaxLookups == 3

\* no lookup made yet
ProviderInit ==
    /\ pc = "resolving"
    /\ session_state = (practice_cache_key :> current_practice_id)
    /\ df_excel_data = <<>>
    /\ df_results = <<>>
    /\ grouped_charges = <<>>
    /\ grouping_warnings = <<>>
    /\ df_idx = 1
    /\ proc_grp_cnt = 0
    /\ success_groups = 0
    /\ fail_groups = 0
    /\ returned = <<>>
    /\ lookups = <<>>
    /\ encounters_sent = <<>>
    /\ api_response = [name |-> "", resp_exact |-> NoResponse, resp_all |-> NoResponse,
                       provider_id_found |-> NoId]

\* lines 166-235: one call of get_provider_id_by_name.  The query by name
\* may fail or return providers of that name in any case of letters and in
\* any state of activity; the query of the practice may fail or return the
\* practice as it is
resolve_provider ==
    /\ pc = "resolving"
    /\ Len(lookups) < MaxLookups
    /\ \E name \in {"Dr A", " dr a ", "Dr A Brown MD", "Brown, Dr."} :
       \E resp_exact \in
             (IF ~ProviderLookupQueries(session_state, current_practice_id, name)
              THEN {NoResponse}
              ELSE GetProvidersExactResponses \cup
                   {Response("Ok", <<>>),
                    Response("Unauthorized", <<>>),
                    Response("Ok", <<Provider(107, "DR A", ActiveFalse), Provider(NoId, "Dr A", ActiveTrue),
                                     Provider(108, "dr a", "true"), Provider(101, "Dr A", ActiveTrue)>>)}) :
       \E resp_all \in
             (IF ProviderLookupQueries(session_state, current_practice_id, name)
                 /\ ProviderLookupGoesBroad(name, resp_exact)
              THEN GetProvidersBroadResponses \cup
                   {Response("Error", <<>>),
                    Response("Ok", <<>>),
                    Response("Ok", <<Provider(103, "Dr Brown", ActiveTrue),
                                     Provider(102, "Adams, Dr", "True"),
                                     Provider(104, "Dr Adamson", ActiveTrue),
                                     Provider(109, "Dr Abel", ActiveFalse)>>),
                    Response("Ok", <<Provider(102, "Adams, Dr", "True"),
                                     Provider(NoId, "Dr Brown A", ActiveTrue),
                                     Provider(101, "dr a", "true"),
                                     Provider(110, "DR A ", ActiveTrue)>>)}
              ELSE {NoResponse}) :
       \E r \in {get_provider_id_by_name(session_state, current_practice_id, name,
                                         resp_exact, resp_all)} :
          /\ session_state' = r.ss
          /\ lookups' = Append(lookups, Lookup("provider", strip(name), r))
          /\ api_response' = [name |-> name, resp_exact |-> resp_exact, resp_all |-> resp_all,
                              provider_id_found |-> r.ret]
    /\ UNCHANGED <<pc, df_excel_data, df_results, grouped_charges, grouping_warnings, df_idx,
                   proc_grp_cnt, success_groups, fail_groups, returned, encounters_sent>>

SpecProviders == ProviderInit /\ [][resolve_provider]_vars

(***************************************************************************)
(* Properties                                                              *)
(***************************************************************************)
\* the table process_excel_data returned
ReturnedTable == returned[1].table

\* the row of the result table that carries an index label
ResultAt(label) == df_results[CHOOSE i \in 1..Len(df_results) : df_results[i].row.index = label]

\* the row with this index label has been appended to a group
InGroup(label) ==
    \E g \in 1..Len(grouped_charges) :
        \E k \in 1..Len(grouped_charges[g].original_df_indices) :
            grouped_charges[g].original_df_indices[k] = label

\* the grouping loop has gone over every row of the sheet
GroupingOver == pc \in {"processing", "returned"} /\ df_idx > Len(df_excel_data)

\* an empty or whitespace-only cell
Blank(cell) == isna(cell) \/ strip(str(cell)) = ""

\* C1: when process_excel_data has returned, every input row has its line in
\* the returned table and that line's status is Done or Failed, never
\* Pending, whatever failed on the way
C1_EveryRowEndsDoneOrFailed ==
    pc = "returned" =>
        \A i \in 1..Len(df_excel_data) :
            /\ \E j \in 1..Len(ReturnedTable) :
                  ReturnedTable[j].index = df_excel_data[i].index
            /\ \A j \in 1..Len(ReturnedTable) :
                  ReturnedTable[j].index = df_excel_data[i].index
                  => ReturnedTable[j].Status \in {"Done", "Failed"}

\* a run has returned with one row Done and one row Failed by a fault the
\* remote service raised on CreateEncounter
C1_MixedRunReturned ==
    /\ pc = "returned"
    /\ \E i, j \in 1..Len(ReturnedTable) :
          /\ ReturnedTable[i].Status = "Done"
          /\ ReturnedTable[j].Status = "Failed"
          /\ startswith(ReturnedTable[j].Message, "SOAP FAULT: ")
    /\ encounters_sent # <<>>

\* the grouping key of a sheet row, once its patient's case has been looked up
HasKey(row) ==
    validate_row(row).ok /\ case_cache_key(validate_row(row).pid) \in DOMAIN session_state
KeyOf(row) ==
    GroupKey(validate_row(row).pid, validate_row(row).dos,
             session_state[case_cache_key(validate_row(row).pid)])

\* C2: after a run, two rows with the same patient id, the same calendar
\* date of service and the same case id carry the same status and the same
\* message
C2_SameKeySameResult ==
    pc = "returned" =>
        \A i, j \in 1..Len(df_excel_data) :
            (/\ HasKey(df_excel_data[i]) /\ HasKey(df_excel_data[j])
             /\ KeyOf(df_excel_data[i]) = KeyOf(df_excel_data[j]))
            => /\ ReturnedTable[i].Status = ReturnedTable[j].Status
               /\ ReturnedTable[i].Message = ReturnedTable[j].Message

\* a run has returned with two rows of one key, entered with different times
\* of the same day, both Done
C2_TwoRowsOneGroupDone ==
    /\ pc = "returned"
    /\ \E i, j \in 1..Len(df_excel_data) :
          /\ i < j
          /\ df_excel_data[i].FromDate # df_excel_data[j].FromDate
          /\ HasKey(df_excel_data[i]) /\ HasKey(df_excel_data[j])
          /\ KeyOf(df_excel_data[i]) = KeyOf(df_excel_data[j])
          /\ ReturnedTable[i].Status = "Done"
          /\ ReturnedTable[j].Status = "Done"

\* .fillna('') of a cell
fillna(cell) == IF cell = NaN THEN "" ELSE cell

\* C3: the result table keeps the rows of the input, one for one and in the
\* input's order, through grouping and group processing, and the table
\* returned has the input's rows in the input's order
C3_SameRowsSameOrder ==
    /\ pc \in {"grouping", "processing", "returned"} =>
          /\ Len(df_results) = Len(df_excel_data)
          /\ \A i \in 1..Len(df_excel_data) : df_results[i].row = df_excel_data[i]
    /\ pc = "returned" =>
          /\ Len(ReturnedTable) = Len(df_excel_data)
          /\ \A i \in 1..Len(df_excel_data) :
                /\ ReturnedTable[i].index = df_excel_data[i].index
                /\ \A f \in (DOMAIN ReturnedTable[i].cells) \ {"original_excel_row_num"} :
                      ReturnedTable[i].cells[f] = fillna(df_excel_data[i][f])

\* a run has returned a table of two different rows, the first failed at the
\* grouping stage and the second written by the processing of its group
C3_TwoRowsReturned ==
    /\ pc = "returned"
    /\ Len(df_excel_data) = 2
    /\ df_excel_data[1].PatientID # df_excel_data[2].PatientID
    /\ grouping_warnings # <<>>
    /\ ~InGroup(df_excel_data[1].index)
    /\ InGroup(df_excel_data[2].index)
    /\ ReturnedTable[2].Status = "Done"

\* a patient id that is missing, blank or not an integer
BadPatientId(row) == Blank(row.PatientID) \/ ~int(row.PatientID).ok

\* C4 as stated: once the grouping loop is over, every row whose patient id
\* is missing, blank or not an integer is Failed with a message that names the
\* patient-id field, and is in no group
C4_BadPatientIdNamesPatientId ==
    GroupingOver =>
        \A i \in 1..Len(df_excel_data) :
            BadPatientId(df_excel_data[i])
            => /\ df_results[i].Status = "Failed"
               /\ contains(df_results[i].Message, COL_PATIENT_ID)
               /\ ~InGroup(df_excel_data[i].index)

\* C4 amended: a row whose patient id is missing, blank or not an integer is
\* never in a group and, once the grouping loop is over, is Failed for good;
\* its message names the patient-id field, unless the patient id is not blank
\* and the date of service is missing or blank: then it names the From Date
\* field
C4_BadPatientIdFailsUngrouped ==
    /\ \A i \in 1..Len(df_excel_data) :
          BadPatientId(df_excel_data[i]) => ~InGroup(df_excel_data[i].index)
    /\ GroupingOver =>
          \A i \in 1..Len(df_excel_data) :
              BadPatientId(df_excel_data[i])
              => /\ df_results[i].Status = "Failed"
                 /\ IF ~Blank(df_excel_data[i].PatientID) /\ Blank(df_excel_data[i].FromDate)
                    THEN /\ contains(df_results[i].Message, COL_FROM_DATE)
                         /\ ~contains(df_results[i].Message, COL_PATIENT_ID)
                    ELSE contains(df_results[i].Message, COL_PATIENT_ID)

\* a run has returned with a row whose patient id is not a number and whose
\* date of service is missing, Failed, beside a row that is Done
C4_BadPatientIdBesideDoneRow ==
    /\ pc = "returned"
    /\ GroupingOver
    /\ \E i, j \in 1..Len(df_excel_data) :
          /\ BadPatientId(df_excel_data[i])
          /\ ~Blank(df_excel_data[i].PatientID)
          /\ Blank(df_excel_data[i].FromDate)
          /\ df_results[i].Status = "Failed"
          /\ df_results[j].Status = "Done"

\* the groups processed so far
ProcessedGroups == {grouped_charges[g] : g \in 1..proc_grp_cnt}

\* the header row of a group
HeaderOf(grp) == grp.encounter_details_source_row_dict

\* a name whose lookup gave an id
ResolvedKey(key) == key \in DOMAIN session_state /\ Truthy(session_state[key])

\* the processing of the group got as far as line 590: its rendering
\* provider and its location were resolved and its date of service was
\* formatted
ReachesPlaceOfService(grp) ==
    /\ ResolvedKey(provider_cache_key(current_practice_id,
                                      strip(str(HeaderOf(grp).RenderingProvider))))
    /\ ResolvedKey(location_cache_key(current_practice_id, strip(str(HeaderOf(grp).Location))))
    /\ format_datetime_for_api(HeaderOf(grp).FromDate) # None

\* the processing of the group got as far as line 598
ReachesServiceLines(grp) ==
    /\ ReachesPlaceOfService(grp)
    /\ place_of_service(strip(str(HeaderOf(grp).PlaceOfService)),
                        strip(str(HeaderOf(grp).EncounterMode))).ok

\* the lines of a group with their payloads, and the payloads of the valid ones
LinesOf(grp) ==
    built_lines(grp.service_lines_data_list,
                format_datetime_for_api(HeaderOf(grp).FromDate),
                encounter_dates(format_datetime_for_api(HeaderOf(grp).FromDate),
                                format_datetime_for_api(HeaderOf(grp).ThroughDate)).end)
ValidLinesOf(grp) == payloads_of(SelectSeq(LinesOf(grp), LAMBDA b : b.sl_obj.ok))

\* the CreateEncounter requests sent for a group
SentFor(grp) ==
    {encounters_sent[k].request : k \in {n \in 1..Len(encounters_sent) :
                                            encounters_sent[n].grp_key = grp.grp_key}}

\* the status and the message of a group: those of its header row
StatusOf(grp) == ResultAt(grp.original_df_indices[1]).Status
MessageOf(grp) == ResultAt(grp.original_df_indices[1]).Message

\* a group with a valid and an invalid line; a group with invalid lines only
MixedLines(grp) ==
    /\ \E k \in 1..Len(LinesOf(grp)) : LinesOf(grp)[k].sl_obj.ok
    /\ \E k \in 1..Len(LinesOf(grp)) : ~LinesOf(grp)[k].sl_obj.ok
NoValidLine(grp) == \A k \in 1..Len(LinesOf(grp)) : ~LinesOf(grp)[k].sl_obj.ok

\* C5 as stated: a processed group that came to build its service lines and
\* has a valid and an invalid one was sent to CreateEncounter, once, with
\* exactly its valid lines
C5_MixedGroupSendsValidLines ==
    \A grp \in ProcessedGroups :
        (ReachesServiceLines(grp) /\ MixedLines(grp))
        => /\ Cardinality(SentFor(grp)) = 1
           /\ \A req \in SentFor(grp) : req.ServiceLines = ValidLinesOf(grp)

\* what happens instead: the group is Failed for its invalid line and nothing
\* was sent for it
C5_MixedGroupFailedUnsent ==
    \E grp \in ProcessedGroups :
        /\ ReachesServiceLines(grp) /\ MixedLines(grp)
        /\ SentFor(grp) = {}
        /\ StatusOf(grp) = "Failed"
        /\ startswith(MessageOf(grp), "Service Line Payload Errors: ")

\* C6 as stated: a processed group that came to build its service lines and
\* has no valid one is Failed with the message that no valid service lines
\* were created, and nothing was sent for it
C6_NoValidLineMessage ==
    \A grp \in ProcessedGroups :
        (ReachesServiceLines(grp) /\ NoValidLine(grp))
        => /\ StatusOf(grp) = "Failed"
           /\ contains(lower(MessageOf(grp)), "no valid service lines")
           /\ SentFor(grp) = {}

\* what happens instead: the group is Failed, unsent, with the message of
\* line 610
C6_NoValidLineFailedAsLineError ==
    \E grp \in ProcessedGroups :
        /\ ReachesServiceLines(grp) /\ NoValidLine(grp)
        /\ SentFor(grp) = {}
        /\ StatusOf(grp) = "Failed"
        /\ startswith(MessageOf(grp), "Service Line Payload Errors: ")

\* C7 as stated: a processed group that came to its place of service with a
\* blank place-of-service cell and a blank encounter-mode cell in its header
\* row is Failed with a message that names both fields, and nothing was sent
\* for it
C7_BlankPlaceAndModeNamed ==
    \A grp \in ProcessedGroups :
        (/\ ReachesPlaceOfService(grp)
         /\ Blank(HeaderOf(grp).PlaceOfService) /\ Blank(HeaderOf(grp).EncounterMode))
        => /\ StatusOf(grp) = "Failed"
           /\ contains(MessageOf(grp), COL_PLACE_OF_SERVICE_EXCEL)
           /\ contains(MessageOf(grp), COL_ENCOUNTER_MODE)
           /\ SentFor(grp) = {}

\* what happens instead when the two cells are empty: the text 'nan' is taken
\* for the place of service
C7_EmptyCellsReadAsNan ==
    \E grp \in ProcessedGroups :
        /\ ReachesPlaceOfService(grp)
        /\ isna(HeaderOf(grp).PlaceOfService) /\ isna(HeaderOf(grp).EncounterMode)
        /\ SentFor(grp) = {}
        /\ StatusOf(grp) = "Failed"
        /\ MessageOf(grp) = "POS payload creation failed for 'nan'."

\* the lookups of this run that repeat an earlier one: same resolver, same key
RepeatedLookups ==
    {p \in (1..Len(lookups)) \X (1..Len(lookups)) :
        /\ p[1] < p[2]
        /\ lookups[p[1]].kind = lookups[p[2]].kind
        /\ lookups[p[1]].name = lookups[p[2]].name}

\* C8: a lookup of a case, a provider or a location that repeats an earlier
\* lookup of the same key in the run issues no remote query and returns what
\* the earlier one returned, a key that was not found included
C8_RepeatedLookupFromCache ==
    \A p \in RepeatedLookups :
        /\ lookups[p[2]].calls = <<>>
        /\ lookups[p[2]].ret = lookups[p[1]].ret

\* a run has repeated a lookup of each of the three resolvers, one of them for
\* a key that was not found, and the first lookup of each key did query
C8_EachResolverRepeated ==
    /\ \A kind \in {"case", "provider", "location"} :
          \E p \in RepeatedLookups :
              lookups[p[1]].kind = kind /\ lookups[p[1]].calls # <<>>
    /\ \E p \in RepeatedLookups : lookups[p[1]].ret = NoId /\ lookups[p[1]].calls # <<>>

\* the provider names looked up in this run, and the GetProviders queries
\* issued for a name: the pairs of a lookup and a call of that lookup
ProviderNames == {lookups[i].name : i \in {n \in 1..Len(lookups) : lookups[n].kind = "provider"}}
ProviderQueries(name) ==
    {q \in (1..Len(lookups)) \X (1..2) :
        /\ lookups[q[1]].kind = "provider" /\ lookups[q[1]].name = name
        /\ q[2] <= Len(lookups[q[1]].calls)
        /\ lookups[q[1]].calls[q[2]].op = "GetProviders"}

\* C9 as stated: over the provider resolutions of a run, at most one
\* provider-directory query is issued for one name of the practice
C9_OneQueryPerProvider ==
    \A name \in ProviderNames : Cardinality(ProviderQueries(name)) <= 1

\* C9, amended: at most two provider-directory queries are issued for one
\* name of the practice, all by one resolution of the name: the query by full
\* name, then the query of the whole practice
C9_TwoQueriesPerProvider ==
    \A name \in ProviderNames :
        /\ Cardinality(ProviderQueries(name)) <= 2
        /\ \A q, r \in ProviderQueries(name) : q[1] = r[1]
        /\ \A q \in ProviderQueries(name) :
              lookups[q[1]].calls[q[2]].filter =
                  (IF q[2] = 1 THEN "FullName=" \o name ELSE "PracticeID")

\* a name was resolved twice in a run, and two queries were issued for it
C9_TwoQueriesThenCached ==
    \E name \in ProviderNames :
        /\ Cardinality(ProviderQueries(name)) = 2
        /\ \E p \in RepeatedLookups : lookups[p[1]].kind = "provider" /\ lookups[p[1]].name = name

\* the status of the i-th row of the result table, a Pending row that has
\* been appended to a group being Grouped
RowState(i) ==
    IF df_results[i].Status = "Pending" /\ InGroup(df_results[i].row.index) THEN "Grouped"
    ELSE df_results[i].Status

\* the moves of the state machine of a row
RowMoves ==
    {<<"Pending", "Grouped">>, <<"Pending", "Failed">>, <<"Grouped", "Done">>,
     <<"Grouped", "Failed">>}

\* what a step of the grouping loop or of the group loop does to the i-th row
RowStep(i) ==
    /\ RowState(i)' = RowState(i) \/ <<RowState(i), RowState(i)'>> \in RowMoves
    /\ <<RowState(i), RowState(i)'>> = <<"Pending", "Failed">>
       => ~InGroup(df_results[i].row.index)'
    /\ df_results[i].Status \in {"Done", "Failed"}
       => /\ df_results'[i].Status = df_results[i].Status
          /\ df_results'[i].Message = df_results[i].Message
          /\ InGroup(df_results[i].row.index)' = InGroup(df_results[i].row.index)

\* a step of the grouping loop or of the group loop keeps the rows of the
\* table and moves each as RowStep allows
RowSteps ==
    pc \in {"grouping", "processing"}
    => (Len(df_results') = Len(df_results) /\ \A i \in 1..Len(df_results) : RowStep(i))

\* C10: through the grouping loop and the group loop a row moves only from
\* Pending to Grouped to Done or Failed, or from Pending to Failed; a row that
\* failed at grouping is in no group then or later and keeps its status and
\* message; a row that is Done or Failed does not change again
C10_RowStatusMoves == [][RowSteps]_vars

\* a group has been processed to Done while another row, failed at grouping,
\* is in no group and still carries the reason given at grouping
C10_GroupingFailureKept ==
    /\ pc = "processing"
    /\ proc_grp_cnt >= 1
    /\ \E i, j \in 1..Len(df_results) :
          /\ df_results[i].Status = "Failed"
          /\ ~InGroup(df_results[i].row.index)
          /\ contains(df_results[i].Message, "for grouping")
          /\ InGroup(df_results[j].row.index)
          /\ df_results[j].Status = "Done"

\* the index labels of the rows of a group
RowsOf(grp) == {grp.original_df_indices[k] : k \in 1..Len(grp.original_df_indices)}

\* the session state without what the lookups of providers and locations
\* have cached in this run
WithoutLookups ==
    clear_keys(session_state,
               LAMBDA k : startswith(k, "provider_id_") \/ startswith(k, "location_id_"))

\* the group could have ended with the status and the message it has, had it
\* been the only group of the run: some answers of the remote service to its
\* own lookups and to its own request give them
CouldEndAlone(grp) ==
    \E ss \in {WithoutLookups} :
    \E rp_name \in {strip(str(HeaderOf(grp).RenderingProvider))} :
    \E loc_name \in {strip(str(HeaderOf(grp).Location))} :
    \E sch_p_name \in {strip(str(HeaderOf(grp).SchedulingProvider))} :
    \E rp_resp \in ProviderResponses(ss, rp_name) :
    \E rp \in {get_provider_id_by_name(ss, current_practice_id, rp_name,
                                       rp_resp[1], rp_resp[2])} :
    \E loc_resp \in LocationResponses(rp.ss, loc_name) :
    \E loc \in {get_location_id_by_name(rp.ss, current_practice_id, loc_name, loc_resp)} :
    \E sch_resp \in ProviderResponses(loc.ss, sch_p_name) :
    \E sch \in {get_provider_id_by_name(loc.ss, current_practice_id, sch_p_name,
                                        sch_resp[1], sch_resp[2])} :
    \E prep \in {prepare_encounter(ss, grp.grp_key, grp, rp, loc, sch)} :
    \E api_resp \in CreateEncounterResponses(0) :
    \E out \in {process_group(prep, api_resp)} :
        /\ out.status = StatusOf(grp)
        /\ out.status = "Failed" => MessageOf(grp) \in out.messages

\* the processing of a group writes the rows of that group, all alike, and
\* leaves every other row of the table as it was
GroupStepWritesOwnRows ==
    (pc = "processing" /\ proc_grp_cnt' = proc_grp_cnt + 1)
    => \A i \in 1..Len(df_results) :
          IF df_results[i].row.index \in RowsOf(grouped_charges[proc_grp_cnt + 1])
          THEN /\ df_results'[i].Status \in {"Done", "Failed"}
               /\ \A j \in 1..Len(df_results) :
                     df_results[j].row.index \in RowsOf(grouped_charges[proc_grp_cnt + 1])
                     => /\ df_results'[j].Status = df_results'[i].Status
                        /\ df_results'[j].Message = df_results'[i].Message
          ELSE df_results'[i] = df_results[i]

\* when the run returns, every group formed has been processed, whatever
\* became of the groups before it, and a group processed after one that
\* failed has a status and a message it could have had alone
EveryGroupProcessed ==
    pc = "returned"
    => /\ proc_grp_cnt = Len(grouped_charges)
       /\ \A g \in 1..proc_grp_cnt :
             (\E f \in 1..(g - 1) : StatusOf(grouped_charges[f]) = "Failed")
             => CouldEndAlone(grouped_charges[g])

\* C11: the failure of a group fails the rows of that group only: the
\* processing of a group leaves the rows of the other groups alone, every
\* group formed is processed before the run returns, and each group ends as
\* it could have ended without the others
C11_FailureStaysInGroup == [][GroupStepWritesOwnRows]_vars /\ []EveryGroupProcessed

\* a run has returned after its first group failed and its second group,
\* processed after it, was created by the remote service
C11_DoneAfterFailedGroup ==
    /\ pc = "returned"
    /\ Len(grouped_charges) = 2
    /\ StatusOf(grouped_charges[1]) = "Failed"
    /\ StatusOf(grouped_charges[2]) = "Done"

\* the requests sent so far, each with the group it was sent for
SentWithGroup ==
    {p \in (1..Len(encounters_sent)) \X (1..Len(grouped_charges)) :
        encounters_sent[p[1]].grp_key = grouped_charges[p[2]].grp_key}

\* a modifier cell as the claim cleans it: trimmed, one trailing ".0" taken
\* off, then cut to two characters
Trimmed(cell) == IF isna(cell) THEN "" ELSE strip(cell)
WithoutPointZero(t) ==
    IF Len(t) >= 2 /\ SubSeq(t, Len(t) - 1, Len(t)) = ".0" THEN SubSeq(t, 1, Len(t) - 2) ELSE t
CutToTwo(t) == IF Len(t) > 2 THEN SubSeq(t, 1, 2) ELSE t
CleanedModifier(cell) == CutToTwo(WithoutPointZero(Trimmed(cell)))

\* the modifier submitted is the cell cleaned, or there is none when the cell
\* cleaned is blank
ModifierAsCleaned(submitted, cell) ==
    IF CleanedModifier(cell) = "" THEN submitted = None
    ELSE submitted = CleanedModifier(cell) /\ Len(submitted) <= 2

\* C12: in every request sent, each service line carries for each of its two
\* modifiers the cell of its row trimmed, without one trailing ".0" and cut
\* to two characters, and carries no modifier when that is blank
C12_ModifiersCleaned ==
    \A p \in SentWithGroup :
        /\ Len(encounters_sent[p[1]].request.ServiceLines)
              = Len(grouped_charges[p[2]].service_lines_data_list)
        /\ \A k \in 1..Len(encounters_sent[p[1]].request.ServiceLines) :
              /\ ModifierAsCleaned(encounters_sent[p[1]].request.ServiceLines[k].ProcedureModifier1,
                                   grouped_charges[p[2]].service_lines_data_list[k].Mod1)
              /\ ModifierAsCleaned(encounters_sent[p[1]].request.ServiceLines[k].ProcedureModifier2,
                                   grouped_charges[p[2]].service_lines_data_list[k].Mod2)

\* requests have been sent with "59.0" submitted as "59", a modifier of three
\* characters cut to two, a padded modifier trimmed and a modifier of ".0"
\* left out
C12_FloatModifierSubmitted ==
    /\ \E e \in 1..Len(encounters_sent) :
       \E k \in 1..Len(encounters_sent[e].request.ServiceLines) :
          /\ encounters_sent[e].request.ServiceLines[k].ProcedureModifier1 = "59"
          /\ encounters_sent[e].request.ServiceLines[k].ProcedureModifier2 = "AB"
    /\ \E p \in SentWithGroup :
       \E k \in 1..Len(encounters_sent[p[1]].request.ServiceLines) :
          /\ grouped_charges[p[2]].service_lines_data_list[k].Mod1 = ".0"
          /\ encounters_sent[p[1]].request.ServiceLines[k].ProcedureModifier1 = None
          /\ encounters_sent[p[1]].request.ServiceLines[k].ProcedureModifier2 = "25"

\* the provider lookups of this run that went on to the query of the whole
\* practice
BroadLookups ==
    {n \in 1..Len(lookups) : lookups[n].kind = "provider" /\ Len(lookups[n].calls) = 2}

\* the tokens of a search name as the claim has them: the name without commas
\* and periods, split at whitespace, without md, do, pa and np, in lowercase
NameTokens(name) ==
    LowerAll(SelectSeq(split(remove_char(remove_char(name, ","), ".")),
                       LAMBDA t : lower(t) \notin {"md", "do", "pa", "np"}))

\* the number of tokens that are substrings of the candidate's lowercase name
MatchedTokenCount(tokens, candidate) ==
    Cardinality({k \in 1..Len(tokens) : contains(lower(candidate.FullName), tokens[k])})

\* (matchedTokenCount / totalTokens) * 90 > 70, in whole numbers
ScoreAbove70(tokens, candidate) == MatchedTokenCount(tokens, candidate) * 90 > 70 * Len(tokens)

\* no fewer than 7/9 of the tokens are matched
SevenNinthsMatched(tokens, candidate) == 9 * MatchedTokenCount(tokens, candidate) >= 7 * Len(tokens)

\* an active candidate with a name and an identifier; one whose name is the
\* search name but for the case of its letters
IsCandidate(p) == is_active(p) /\ p.FullName \notin {None, ""} /\ p.ID # NoId
ExactlyNamed(p, name) == lower(strip(p.FullName)) = lower(name)

\* the candidates of the answers the practice-wide query may get
BroadCandidates ==
    UNION {{b.data[k] : k \in 1..Len(b.data)} :
              b \in {r \in GetProvidersBroadResponses : r.kind = "Ok"}}

\* C13: for a name that went to the fuzzy phase in the run, an active candidate that is
\* not an exact match is accepted exactly when (matched / total) * 90 > 70
\* over the tokens of the name, and is rejected when fewer than 7/9 of the
\* tokens are matched; the identifier a fuzzy lookup returned is that of a
\* candidate accepted so or of an exact match
C13_FuzzyAcceptance ==
    pc = "returned" =>
    \A n \in BroadLookups :
        /\ \A p \in {c \in BroadCandidates : IsCandidate(c) /\ ~ExactlyNamed(c, lookups[n].name)} :
              /\ score_accepted(search_terms(lookups[n].name), lower(strip(p.FullName)),
                                lookups[n].name)
                 <=> ScoreAbove70(NameTokens(lookups[n].name), p)
              /\ ~SevenNinthsMatched(NameTokens(lookups[n].name), p)
                 => ~score_accepted(search_terms(lookups[n].name), lower(strip(p.FullName)),
                                    lookups[n].name)
        /\ lookups[n].ret # NoId
           => \E p \in {c \in BroadCandidates : IsCandidate(c)} :
                 /\ p.ID = lookups[n].ret
                 /\ ExactlyNamed(p, lookups[n].name)
                    \/ ScoreAbove70(NameTokens(lookups[n].name), p)

\* a run has resolved one name to a candidate that matches both its tokens
\* without being an exact match, and has left unresolved a name of which a
\* candidate matches two tokens of three
C13_AcceptedAndRejected ==
    /\ \E n \in BroadLookups :
          /\ lookups[n].ret # NoId
          /\ \E p \in BroadCandidates :
                /\ p.ID = lookups[n].ret /\ ~ExactlyNamed(p, lookups[n].name)
                /\ MatchedTokenCount(NameTokens(lookups[n].name), p) = 2
                /\ Len(NameTokens(lookups[n].name)) = 2
    /\ \E n \in BroadLookups :
          /\ lookups[n].ret = NoId
          /\ Len(NameTokens(lookups[n].name)) = 3
          /\ \E p \in BroadCandidates :
                IsCandidate(p) /\ MatchedTokenCount(NameTokens(lookups[n].name), p) = 2

\* the group a request was sent for
GroupSent(e) ==
    grouped_charges[CHOOSE g \in 1..Len(grouped_charges) :
                        grouped_charges[g].grp_key = encounters_sent[e].grp_key]

\* the requests the service answered with its error flag set
ErrorAnswers == {e \in 1..Len(encounters_sent) : IsError(encounters_sent[e].response)}

\* an error message without its prefix "API Error: "
WithoutPrefix(text) ==
    IF startswith(text, "API Error: ")
    THEN strip(SubSeq(text, Len("API Error: ") + 1, Len(text))) ELSE text

\* neither an error of a service line nor an error of the encounter can be
\* parsed out of the message
NothingParsed(text) ==
    /\ all_line_errors(service_lines_xml(WithoutPrefix(text), 1), 1) = <<>>
    /\ ~overall_encounter_error(WithoutPrefix(text)).ok

\* C14 as stated: when neither an error of a service line nor an error of
\* the encounter can be parsed out of the error message of the service, the
\* message given to the group is the error message itself, unchanged
C14_UnparsedMessageKept ==
    \A e \in ErrorAnswers :
        NothingParsed(encounters_sent[e].response.text)
        => MessageOf(GroupSent(e)) = encounters_sent[e].response.text

\* what happens instead: a message that begins with the encounter tag is
\* replaced by a fixed sentence, and one with the prefix loses it
C14_UnparsedMessageReplaced ==
    /\ \E e \in ErrorAnswers :
          /\ encounters_sent[e].response.text = "<Encounter><Case>7</Case></Encounter>"
          /\ MessageOf(GroupSent(e))
                = "Encounter creation failed. No specific line errors parsed. Review raw API response."
    /\ \E e \in ErrorAnswers :
          /\ encounters_sent[e].response.text = "API Error: rejected <Encounter>"
          /\ MessageOf(GroupSent(e)) = "rejected <Encounter>"

\* the call returned a response: it raised neither a SoapFault nor another
\* exception
Answered(api_resp) == api_resp.kind \notin {"Fault", "Exception"}

\* the SecurityResult of a response that is not authorized
SecurityResult(api_resp) ==
    IF api_resp.kind = "Unauthorized" THEN api_resp.text ELSE api_resp.code

\* C17: the response to a request decides the group in this order: error
\* flag set, Failed with the classified error message; else not authorized,
\* Failed with an auth-error message; else an encounter identifier, Done with
\* the identifier as message; else Failed with an unknown-response message.
\* A group is Done only for a response without error flag, authorized and
\* with an identifier
C17_ResponseClassified ==
    /\ \A e \in 1..Len(encounters_sent) :
          /\ Answered(encounters_sent[e].response)
             => IF IsError(encounters_sent[e].response)
                THEN /\ StatusOf(GroupSent(e)) = "Failed"
                     /\ MessageOf(GroupSent(e))
                           \in parse_and_simplify_tebra_xml_error(encounters_sent[e].response.text)
                ELSE IF ~Authorized(encounters_sent[e].response)
                THEN /\ StatusOf(GroupSent(e)) = "Failed"
                     /\ MessageOf(GroupSent(e))
                           = "API Auth Error: " \o SecurityResult(encounters_sent[e].response)
                ELSE IF encounters_sent[e].response.EncounterID # NoId
                THEN /\ StatusOf(GroupSent(e)) = "Done"
                     /\ MessageOf(GroupSent(e)) = IntToStr(encounters_sent[e].response.EncounterID)
                ELSE /\ StatusOf(GroupSent(e)) = "Failed"
                     /\ startswith(MessageOf(GroupSent(e)), "Unknown API response")
          /\ StatusOf(GroupSent(e)) = "Done"
             => /\ Answered(encounters_sent[e].response)
                /\ ~IsError(encounters_sent[e].response)
                /\ Authorized(encounters_sent[e].response)
                /\ encounters_sent[e].response.EncounterID # NoId
    /\ \A grp \in ProcessedGroups : StatusOf(grp) = "Done" => SentFor(grp) # {}

\* in one run a group was failed on a response that has its error flag set
\* and carries an encounter identifier, with its service-line error as
\* message, or on a response that is not authorized and carries an
\* identifier, and another group is Done with its identifier
C17_ErrorBeforeIdentifier ==
    /\ \E e \in 1..Len(encounters_sent) :
          /\ encounters_sent[e].response.EncounterID # NoId
          /\ IsError(encounters_sent[e].response) \/ ~Authorized(encounters_sent[e].response)
          /\ StatusOf(GroupSent(e)) = "Failed"
    /\ \E e \in 1..Len(encounters_sent) :
          /\ StatusOf(GroupSent(e)) = "Done"
          /\ MessageOf(GroupSent(e)) = IntToStr(encounters_sent[e].response.EncounterID)

\* a group was failed with the error of its service line as the classifier
\* words it
C17_LineErrorClassified ==
    \E e \in ErrorAnswers :
        MessageOf(GroupSent(e)) = "L1 (Proc 99213): Diag 1 ('J01') - Invalid code."

\* the cache keys of the rendering provider and of the location the header
\* row of a group names
RenderingKey(grp) ==
    provider_cache_key(current_practice_id, strip(str(HeaderOf(grp).RenderingProvider)))
LocationKey(grp) ==
    location_cache_key(current_practice_id, strip(str(HeaderOf(grp).Location)))

\* the rendering provider or the location of the group is blank or did not
\* resolve to an identifier
PartyMissing(grp) ==
    \/ Blank(HeaderOf(grp).RenderingProvider) \/ ~ResolvedKey(RenderingKey(grp))
    \/ Blank(HeaderOf(grp).Location) \/ ~ResolvedKey(LocationKey(grp))

SchedulingKey(grp) ==
    provider_cache_key(current_practice_id, strip(str(HeaderOf(grp).SchedulingProvider)))

\* what a lookup finds in the cache under a key
Cached(key) ==
    Resolved(IF key \in DOMAIN session_state THEN session_state[key] ELSE NoId,
             session_state, <<>>)

\* the same group with a blank scheduling provider, prepared for sending with
\* the rendering provider and the location as the group's own lookups gave
\* them
WithBlankScheduling(grp) ==
    prepare_encounter(session_state, grp.grp_key,
                      [grp EXCEPT !.encounter_details_source_row_dict.SchedulingProvider = " "],
                      Cached(RenderingKey(grp)), Cached(LocationKey(grp)),
                      Resolved(NoId, session_state, <<>>))

\* the group ended as the group prepared as blank ends: failed unsent with the
\* same message, or sent once with the same request, which names no
\* scheduling provider, and with the status and message of the response
EndedAs(grp, blank) ==
    IF blank.ok
    THEN \E e \in 1..Len(encounters_sent) :
            /\ encounters_sent[e].grp_key = grp.grp_key
            /\ encounters_sent[e].request = blank.request
            /\ encounters_sent[e].request.SchedulingProvider = NoId
            /\ StatusOf(grp) = Interpreted[encounters_sent[e].response].status
            /\ MessageOf(grp) \in Interpreted[encounters_sent[e].response].messages
    ELSE /\ SentFor(grp) = {}
         /\ StatusOf(grp) = "Failed"
         /\ MessageOf(grp) = blank.error

\* the header row of the group names a scheduling provider that did not
\* resolve to an identifier
SchedulingUnresolved(grp) ==
    ~Blank(HeaderOf(grp).SchedulingProvider) /\ ~ResolvedKey(SchedulingKey(grp))

\* C16: a processed group whose header row names a scheduling provider that
\* cannot be resolved is not failed for that: its request is sent without a
\* scheduling provider, and the group ends as it would with a blank
\* scheduling provider
C16_SchedulingProviderOptional ==
    \A grp \in ProcessedGroups :
        SchedulingUnresolved(grp) => EndedAs(grp, WithBlankScheduling(grp))

\* a group whose scheduling provider was looked up and not found was sent
\* without a scheduling provider and is Done
C16_SentWithoutSchedulingProvider ==
    \E grp \in ProcessedGroups :
        /\ SchedulingUnresolved(grp)
        /\ SchedulingKey(grp) \in DOMAIN session_state
        /\ StatusOf(grp) = "Done"
        /\ \E req \in SentFor(grp) : req.SchedulingProvider = NoId

\* the CreateEncounter calls of the run made for a group
CallsFor(grp) ==
    {e \in 1..Len(encounters_sent) : encounters_sent[e].grp_key = grp.grp_key}

\* C18: in one run CreateEncounter is called at most once for a group,
\* whatever the service answers, and only for groups that have been taken up,
\* so the calls of the run are never more than the groups formed
C18_OneCallPerGroup ==
    /\ \A g \in 1..Len(grouped_charges) :
          /\ Cardinality(CallsFor(grouped_charges[g])) <= 1
          /\ g > proc_grp_cnt => CallsFor(grouped_charges[g]) = {}
    /\ \A e \in 1..Len(encounters_sent) :
          \E g \in 1..Len(grouped_charges) : e \in CallsFor(grouped_charges[g])
    /\ Len(encounters_sent) <= Len(grouped_charges)

\* the run has returned with a group that was failed by a fault or a
\* rejection of its request, which was sent once, and with every group of the
\* run sent
C18_RejectedSentOnce ==
    /\ pc = "returned"
    /\ Len(grouped_charges) = MaxRows
    /\ Len(encounters_sent) = Len(grouped_charges)
    /\ \E e \in 1..Len(encounters_sent) :
          /\ encounters_sent[e].response.kind \in {"Fault", "Error"}
          /\ StatusOf(GroupSent(e)) = "Failed"
          /\ CallsFor(GroupSent(e)) = {e}

\* the run is in or past its grouping loop
InRun == pc \in {"grouping", "processing", "returned"}

\* the grouping loop has taken the i-th row of the sheet, the row passed the
\* checks of its patient id and date, and its patient has a case
WithCase(i) ==
    /\ i < df_idx
    /\ validate_row(df_excel_data[i]).ok
    /\ ResolvedKey(case_cache_key(validate_row(df_excel_data[i]).pid))

\* the patient, the calendar day and the case of such a row; the day is the
\* first ten characters of a date written year-month-day
PatientOf(i) == validate_row(df_excel_data[i]).pid
DayOf(i) == prefix(strip(str(df_excel_data[i].FromDate)), 10)
CaseOf(i) == session_state[case_cache_key(PatientOf(i))]

\* where the i-th row stands in the groups: group and position
PlacesOf(i) ==
    {p \in (1..Len(grouped_charges)) \X (1..MaxRows) :
        /\ p[2] <= Len(grouped_charges[p[1]].original_df_indices)
        /\ grouped_charges[p[1]].original_df_indices[p[2]] = df_excel_data[i].index}

\* the group of a row that is in one
GroupOf(i) == CHOOSE g \in 1..Len(grouped_charges) : \E p \in PlacesOf(i) : p[1] = g

\* every row with a case is in one group, once, under the key of its patient,
\* day and case; no other row is in a group; two rows share a group exactly
\* when they share patient, day and case
GroupsPartition ==
    InRun =>
    /\ \A i \in 1..Len(df_excel_data) :
          IF WithCase(i)
          THEN /\ Cardinality(PlacesOf(i)) = 1
               /\ grouped_charges[GroupOf(i)].grp_key = GroupKey(PatientOf(i), DayOf(i), CaseOf(i))
          ELSE PlacesOf(i) = {}
    /\ \A i, j \in 1..Len(df_excel_data) :
          WithCase(i) /\ WithCase(j)
          => (GroupOf(i) = GroupOf(j)
              <=> (PatientOf(i) = PatientOf(j) /\ DayOf(i) = DayOf(j) /\ CaseOf(i) = CaseOf(j)))

\* a step of the run keeps every row that is in a group in that group
GroupsKept ==
    pc \in {"grouping", "processing"}
    => \A i \in 1..Len(df_excel_data) :
          PlacesOf(i) # {} => (PlacesOf(i)' = PlacesOf(i) /\ grouped_charges'[GroupOf(i)].grp_key
                                                             = grouped_charges[GroupOf(i)].grp_key)

\* C19: grouping partitions the rows that passed validation and have a case:
\* each is in exactly one group, two are in the same group if and only if
\* they have the same patient id, the same calendar date of service, whatever
\* the time of day, and the same case id, and a row once in a group stays in it
C19_GroupingIsPartition == [][GroupsKept]_vars /\ []GroupsPartition

\* two visits of one patient on one day at different times of day are in one
\* group
C19_SameDayOneGroup ==
    /\ InRun
    /\ \E i, j \in 1..Len(df_excel_data) :
          /\ WithCase(i) /\ WithCase(j)
          /\ df_excel_data[i].FromDate # df_excel_data[j].FromDate
          /\ GroupOf(i) = GroupOf(j)

\* rows of two patients with the same case id on the same day are in two
\* groups
C19_TwoPatientsTwoGroups ==
    /\ InRun
    /\ \E i, j \in 1..Len(df_excel_data) :
          /\ WithCase(i) /\ WithCase(j)
          /\ PatientOf(i) # PatientOf(j) /\ CaseOf(i) = CaseOf(j) /\ DayOf(i) = DayOf(j)
          /\ GroupOf(i) # GroupOf(j)

\* the cases of an answer that are flagged primary; those that carry an id
PrimaryCases(cases) == {i \in 1..Len(cases) : is_primary(cases[i])}
CasesWithId(cases) == {i \in 1..Len(cases) : cases[i].PatientCaseID # NoId}

\* C20 as stated: when the service answers, the case resolved is a case
\* flagged primary if the patient has one, otherwise the first case returned;
\* it is NotFound only when the patient has no case at all, never when a case
\* of the patient carries an id
C20_CaseResolved ==
    api_response.answered
    => /\ PrimaryCases(api_response.cases) # {}
          => \E i \in PrimaryCases(api_response.cases) :
                api_response.case_id_found = api_response.cases[i].PatientCaseID
       /\ PrimaryCases(api_response.cases) = {} /\ api_response.cases # <<>>
          => api_response.case_id_found = api_response.cases[1].PatientCaseID
       /\ api_response.case_id_found = NoId => api_response.cases = <<>>
       /\ CasesWithId(api_response.cases) # {} => api_response.case_id_found # NoId

\* what happens instead: the service returned a case with an id, the patient
\* is found to have no case, and the row is failed at grouping
C20_CaseWithIdNotFound ==
    /\ api_response.answered
    /\ CasesWithId(api_response.cases) # {}
    /\ api_response.case_id_found = NoId
    /\ df_results[df_idx - 1].Status = "Failed"
    /\ startswith(df_results[df_idx - 1].Message, "No existing Tebra case found")

\* what holds: the case found is the first case flagged primary that has an
\* id, else the first case if it has an id, else NotFound
C20_FirstCaseOnlyFallback ==
    api_response.answered
    => api_response.case_id_found =
          IF PrimaryCases(api_response.cases) \cap CasesWithId(api_response.cases) # {}
          THEN api_response.cases[CHOOSE i \in PrimaryCases(api_response.cases)
                                              \cap CasesWithId(api_response.cases) :
                                     \A j \in PrimaryCases(api_response.cases)
                                              \cap CasesWithId(api_response.cases) : i <= j]
                   .PatientCaseID
          ELSE IF api_response.cases # <<>> THEN api_response.cases[1].PatientCaseID
          ELSE NoId

\* the patient has no case flagged primary and the first case returned, which
\* has an id, is the case found
C20_FirstCaseTaken ==
    /\ api_response.answered
    /\ PrimaryCases(api_response.cases) = {}
    /\ api_response.case_id_found # NoId
    /\ api_response.case_id_found = api_response.cases[1].PatientCaseID

\* the lookup in hand asked the service; the name it searched for
ProviderAsked == pc = "resolving" /\ api_response.resp_exact # NoResponse
SearchName == strip(api_response.name)

\* the least position of a set of positions
FirstOf(positions) == CHOOSE i \in positions : \A j \in positions : i <= j

\* the positions of the active providers of the search name in the answer to
\* the query by name
ExactHits ==
    IF api_response.resp_exact.kind # "Ok" THEN {}
    ELSE {i \in 1..Len(api_response.resp_exact.data) :
             /\ IsCandidate(api_response.resp_exact.data[i])
             /\ ExactlyNamed(api_response.resp_exact.data[i], SearchName)}

\* the positions of the candidates accepted in the answer to the query of the
\* practice, and the score of a candidate times the number of tokens
AcceptedCandidates ==
    {i \in 1..Len(api_response.resp_all.data) :
        /\ IsCandidate(api_response.resp_all.data[i])
        /\ \/ ExactlyNamed(api_response.resp_all.data[i], SearchName)
           \/ ScoreAbove70(NameTokens(SearchName), api_response.resp_all.data[i])}
CandidateScore(i) ==
    IF ExactlyNamed(api_response.resp_all.data[i], SearchName)
    THEN 100 * Len(NameTokens(SearchName))
    ELSE 90 * MatchedTokenCount(NameTokens(SearchName), api_response.resp_all.data[i])

\* the accepted candidate with the highest score, the first of those that
\* share it
BestCandidate ==
    CHOOSE i \in AcceptedCandidates :
        \A j \in AcceptedCandidates :
            \/ CandidateScore(j) < CandidateScore(i)
            \/ CandidateScore(j) = CandidateScore(i) /\ i <= j

\* C21: a provider lookup that asks the service returns the first active
\* exact match of the exact phase when there is one, and enters the fuzzy
\* phase only when there is none; the fuzzy phase returns the accepted
\* candidate with the highest score, the first in the result set of those
\* that share it, and NotFound when no candidate is accepted
C21_BestProviderReturned ==
    ProviderAsked
    => /\ ExactHits # {}
          => /\ api_response.provider_id_found
                   = api_response.resp_exact.data[FirstOf(ExactHits)].ID
             /\ api_response.resp_all = NoResponse
       /\ api_response.resp_all # NoResponse => ExactHits = {}
       /\ api_response.resp_all.kind = "Ok"
          => IF AcceptedCandidates = {} THEN api_response.provider_id_found = NoId
             ELSE api_response.provider_id_found
                     = api_response.resp_all.data[BestCandidate].ID

\* the fuzzy phase returned the first of two accepted candidates with the
\* same, highest score
C21_FirstOfEqualScores ==
    /\ ProviderAsked
    /\ api_response.resp_all.kind = "Ok"
    /\ \E j \in AcceptedCandidates :
          j > BestCandidate /\ CandidateScore(j) = CandidateScore(BestCandidate)
    /\ api_response.provider_id_found = api_response.resp_all.data[BestCandidate].ID

\* the fuzzy phase returned a candidate that an accepted candidate of lower
\* score precedes in the result set
C21_HighestScoreNotFirst ==
    /\ ProviderAsked
    /\ api_response.resp_all.kind = "Ok"
    /\ \E j \in AcceptedCandidates :
          j < BestCandidate /\ CandidateScore(j) < CandidateScore(BestCandidate)
    /\ api_response.provider_id_found = api_response.resp_all.data[BestCandidate].ID

\* the exact phase returned its second active exact match with an id, after an
\* inactive provider and a provider without id of the same name
C21_FirstActiveExactMatch ==
    /\ ProviderAsked
    /\ Cardinality(ExactHits) = 2
    /\ FirstOf(ExactHits) = 3
    /\ api_response.provider_id_found = 108

\* the fuzzy phase accepted no candidate of a practice that has providers
C21_NoCandidateAccepted ==
    /\ ProviderAsked
    /\ api_response.resp_all.kind = "Ok" /\ api_response.resp_all.data # <<>>
    /\ AcceptedCandidates = {}
    /\ api_response.provider_id_found = NoId

\* the group was failed for its place of service
FailedForPlace(grp) ==
    /\ StatusOf(grp) = "Failed"
    /\ \/ startswith(MessageOf(grp), "POS payload creation failed")
       \/ startswith(MessageOf(grp), "Both '")

\* the group has the place of service that the text has when it stands in
\* the place-of-service cell: failed for its place of service if the text has
\* no code, and otherwise not failed for it and sent, if sent, with that code
PlacedAs(grp, text) ==
    IF create_place_of_service_payload(text).ok
    THEN /\ ~FailedForPlace(grp)
         /\ \A req \in SentFor(grp) :
               req.PlaceOfService = create_place_of_service_payload(text).PlaceOfServiceCode
    ELSE FailedForPlace(grp) /\ SentFor(grp) = {}

\* C22 as stated: a processed group that came to its place of service with a
\* blank place-of-service cell and a non-blank encounter-mode cell in its
\* header row has the place of service of a row carrying the encounter mode
\* in its place-of-service cell
C22_BlankPlaceUsesMode ==
    \A grp \in ProcessedGroups :
        (/\ ReachesPlaceOfService(grp)
         /\ Blank(HeaderOf(grp).PlaceOfService) /\ ~Blank(HeaderOf(grp).EncounterMode))
        => PlacedAs(grp, HeaderOf(grp).EncounterMode)

\* what happens instead when the place-of-service cell is empty: the text
\* 'nan' is taken for the place of service and the encounter mode is not
\* looked at
C22_EmptyPlaceIgnoresMode ==
    \E grp \in ProcessedGroups :
        /\ ReachesPlaceOfService(grp)
        /\ isna(HeaderOf(grp).PlaceOfService)
        /\ HeaderOf(grp).EncounterMode = "TELEHEALTH"
        /\ SentFor(grp) = {}
        /\ StatusOf(grp) = "Failed"
        /\ MessageOf(grp) = "POS payload creation failed for 'nan'."

\* what holds: a place-of-service cell of whitespace only falls back to the
\* encounter mode
C22_WhitespacePlaceUsesMode ==
    \A grp \in ProcessedGroups :
        (/\ ReachesPlaceOfService(grp)
         /\ ~isna(HeaderOf(grp).PlaceOfService) /\ Blank(HeaderOf(grp).PlaceOfService)
         /\ ~Blank(HeaderOf(grp).EncounterMode))
        => PlacedAs(grp, HeaderOf(grp).EncounterMode)

\* a group with a place-of-service cell of whitespace only was sent with the
\* code of its encounter mode
C22_ModeCodeSent ==
    \E grp \in ProcessedGroups :
        /\ HeaderOf(grp).PlaceOfService = " " /\ HeaderOf(grp).EncounterMode = "telehealth"
        /\ StatusOf(grp) = "Done"
        /\ \E req \in SentFor(grp) : req.PlaceOfService = "10"

\* the text taken for the place of service of a group: that of its
\* place-of-service cell, or else that of its encounter-mode cell
PlaceText(grp) ==
    IF strip(str(HeaderOf(grp).PlaceOfService)) # ""
    THEN strip(str(HeaderOf(grp).PlaceOfService))
    ELSE strip(str(HeaderOf(grp).EncounterMode))

\* the fixed table, and a text of one or two digits
TableCodes ==
    ("OFFICE" :> "11") @@ ("IN OFFICE" :> "11") @@ ("INOFFICE" :> "11")
    @@ ("TELEHEALTH" :> "10") @@ ("TELEHEALTH OFFICE" :> "02")
OneOrTwoDigits(text) ==
    /\ Len(text) \in {1, 2}
    /\ \A i \in 1..Len(text) :
          SubSeq(text, i, i) \in {"0", "1", "2", "3", "4", "5", "6", "7", "8", "9"}

\* C23: a processed group that came to its place of service with a text for it
\* is sent with the table's code when the text is in the fixed table, whatever
\* the case of its letters, with the text itself when it is not in the table
\* and consists of one or two digits, and is otherwise failed for its place
\* of service without a CreateEncounter request
C23_PlaceOfServiceCode ==
    \A grp \in ProcessedGroups :
        (ReachesPlaceOfService(grp) /\ PlaceText(grp) # "")
        => IF upper(PlaceText(grp)) \in DOMAIN TableCodes
           THEN /\ ~FailedForPlace(grp)
                /\ \A req \in SentFor(grp) :
                      req.PlaceOfService = TableCodes[upper(PlaceText(grp))]
           ELSE IF OneOrTwoDigits(PlaceText(grp))
           THEN /\ ~FailedForPlace(grp)
                /\ \A req \in SentFor(grp) : req.PlaceOfService = PlaceText(grp)
           ELSE FailedForPlace(grp) /\ SentFor(grp) = {}

\* a group was sent with its place of service, a digit, as the code
C23_OwnCodeSent ==
    \E grp \in ProcessedGroups :
        /\ HeaderOf(grp).PlaceOfService = "7"
        /\ StatusOf(grp) = "Done"
        /\ \E req \in SentFor(grp) : req.PlaceOfService = "7"

\* a group was sent with the code of a table entry written in lower case; a
\* group was sent with the code 02
C23_TableCodeSent ==
    \E grp \in ProcessedGroups :
        /\ HeaderOf(grp).PlaceOfService = "office "
        /\ \E req \in SentFor(grp) : req.PlaceOfService = "11"
C23_TelehealthOfficeSent ==
    \E grp \in ProcessedGroups :
        /\ HeaderOf(grp).PlaceOfService = "TELEHEALTH OFFICE"
        /\ \E req \in SentFor(grp) : req.PlaceOfService = "02"

\* a group with three digits for its place of service was failed unsent
C23_ThreeDigitsFailed ==
    \E grp \in ProcessedGroups :
        /\ HeaderOf(grp).PlaceOfService = "123"
        /\ FailedForPlace(grp) /\ SentFor(grp) = {}

\* the cache key of a lookup
LookupKey(l) ==
    IF l.kind = "case" THEN "patient_case_" \o l.name
    ELSE IF l.kind = "provider" THEN provider_cache_key(current_practice_id, l.name)
    ELSE location_cache_key(current_practice_id, l.name)

\* the entries of the provider, location and case caches
CacheEntries == {k \in DOMAIN session_state : IsCacheKey(k)}

\* the run begins with its caches empty
RunStartsEmpty == (pc = "idle" /\ pc' # "idle") => CacheEntries' = {}

\* in a run every cache entry was written by a lookup of the run, and the
\* first lookup of each key in the run queried the remote service
CachesOfThisRun ==
    pc \in {"start", "grouping", "processing", "returned"}
    => /\ \A k \in CacheEntries : \E n \in 1..Len(lookups) : LookupKey(lookups[n]) = k
       /\ \A n \in 1..Len(lookups) :
             (\A m \in 1..(n - 1) : LookupKey(lookups[m]) # LookupKey(lookups[n]))
             => lookups[n].calls # <<>>

\* C24: the provider, location and case caches are emptied when a run starts:
\* no lookup of a run is answered from an entry an earlier run wrote, and the
\* first lookup of each key in a run queries the remote service
C24_CachesEmptiedPerRun == [][RunStartsEmpty]_vars /\ []CachesOfThisRun

\* a run has ended and the entries it wrote to the three caches are still in
\* the session state, where the next run finds them
C24_EntriesOutliveRun ==
    /\ pc = "idle"
    /\ \E k \in CacheEntries : startswith(k, "provider_id_")
    /\ \E k \in CacheEntries : startswith(k, "location_id_")
    /\ \E k \in CacheEntries : startswith(k, "patient_case_")

\* the columns an encounter takes from the header row of its group
HeaderColumns ==
    {"RenderingProvider", "SchedulingProvider", "Location", "PlaceOfService", "EncounterMode",
     "BatchNumber", "FromDate", "ThroughDate"}

\* the group with the header's values in these columns of all its rows
WithHeaderColumns(grp) ==
    [grp EXCEPT !.service_lines_data_list =
        [k \in 1..Len(grp.service_lines_data_list) |->
            [f \in DOMAIN grp.service_lines_data_list[k] |->
                IF f \in HeaderColumns THEN HeaderOf(grp)[f]
                ELSE grp.service_lines_data_list[k][f]]]]

\* the group prepared for sending with the providers and the location as its
\* own lookups gave them
PreparedFromCache(grp) ==
    prepare_encounter(session_state, grp.grp_key, grp, Cached(RenderingKey(grp)),
                      Cached(LocationKey(grp)), Cached(SchedulingKey(grp)))

\* the group ended as the prepared group ends: failed unsent with its
\* message, or sent with its request and with the status and message of the
\* response
EndedAsPrepared(grp, prep) ==
    IF prep.ok
    THEN \E e \in 1..Len(encounters_sent) :
            /\ encounters_sent[e].grp_key = grp.grp_key
            /\ encounters_sent[e].request = prep.request
            /\ StatusOf(grp) = Interpreted[encounters_sent[e].response].status
            /\ MessageOf(grp) \in Interpreted[encounters_sent[e].response].messages
    ELSE /\ SentFor(grp) = {}
         /\ StatusOf(grp) = "Failed"
         /\ MessageOf(grp) = prep.error

\* the start and the end of the encounter of a header row
HeaderStart(grp) == format_datetime_for_api(HeaderOf(grp).FromDate)
HeaderEnd(grp) ==
    IF format_datetime_for_api(HeaderOf(grp).ThroughDate) = None THEN HeaderStart(grp)
    ELSE format_datetime_for_api(HeaderOf(grp).ThroughDate)

\* the header row of every group is the first row of the sheet that has the
\* group's key; a processed group ended as it ends with the header's values
\* in the header columns of all its rows; the encounter and the service lines
\* of its request carry the dates of the header
HeaderRowDecides ==
    /\ \A g \in 1..Len(grouped_charges) :
          /\ HeaderOf(grouped_charges[g]) = grouped_charges[g].service_lines_data_list[1]
          /\ \E i \in 1..Len(df_excel_data) :
                /\ df_excel_data[i].index = grouped_charges[g].original_df_indices[1]
                /\ HeaderOf(grouped_charges[g]) = df_excel_data[i]
          /\ \A k \in 1..Len(grouped_charges[g].original_df_indices) :
                grouped_charges[g].original_df_indices[1]
                   <= grouped_charges[g].original_df_indices[k]
    /\ \A grp \in ProcessedGroups :
          /\ EndedAsPrepared(grp, PreparedFromCache(WithHeaderColumns(grp)))
          /\ \A req \in SentFor(grp) :
                /\ req.ServiceStartDate = HeaderStart(grp) /\ req.ServiceEndDate = HeaderEnd(grp)
                /\ \A k \in 1..Len(req.ServiceLines) :
                      /\ req.ServiceLines[k].ServiceStartDate = HeaderStart(grp)
                      /\ req.ServiceLines[k].ServiceEndDate = HeaderEnd(grp)

\* a step of the run leaves the header row of every group as it is
HeaderRowKept ==
    pc \in {"grouping", "processing"}
    => \A g \in 1..Len(grouped_charges) :
          /\ g <= Len(grouped_charges')
          /\ HeaderOf(grouped_charges'[g]) = HeaderOf(grouped_charges[g])

\* C25: the providers, the location, the place of service, the batch number
\* and the dates of an encounter are those of the header row of its group,
\* which is the first row met with the group's key and is never replaced;
\* what later rows of the group hold in these columns changes neither the
\* request nor the outcome, and every service line carries the header's dates
C25_HeaderRowDecides == [][HeaderRowKept]_vars /\ []HeaderRowDecides

\* a group of two rows is Done whose second row names another rendering
\* provider, location, place of service, batch number and other dates than
\* its header row
C25_LaterRowIgnored ==
    \E grp \in ProcessedGroups :
        /\ Len(grp.service_lines_data_list) = 2
        /\ \A f \in HeaderColumns \ {"EncounterMode"} :
              grp.service_lines_data_list[2][f] # HeaderOf(grp)[f]
        /\ StatusOf(grp) = "Done"
        /\ \E req \in SentFor(grp) :
              /\ Len(req.ServiceLines) = 2
              /\ req.BatchNumber = "B1"
              /\ req.ServiceLines[2].ServiceEndDate = HeaderEnd(grp)

\* the lookups of the run that returned NotFound
NotFoundLookups == {n \in 1..Len(lookups) : lookups[n].ret = NoId}

\* NotFound is cached for the key of the lookup, and every later lookup of the
\* key in the run returns NotFound without a remote call
NotFoundKept(n) ==
    /\ LookupKey(lookups[n]) \in DOMAIN session_state
    /\ session_state[LookupKey(lookups[n])] = NoId
    /\ \A m \in (n + 1)..Len(lookups) :
          LookupKey(lookups[m]) = LookupKey(lookups[n])
          => lookups[m].calls = <<>> /\ lookups[m].ret = NoId

\* what depends on the key of the lookup has failed: the rows of the patient
\* that the grouping loop has taken, the processed groups that name the
\* provider as their rendering provider, those that name the location
DependentsFailed(n) ==
    /\ lookups[n].kind = "case"
       => \A i \in 1..Len(df_excel_data) :
             (/\ i < df_idx
              /\ validate_row(df_excel_data[i]).ok
              /\ IntToStr(validate_row(df_excel_data[i]).pid) = lookups[n].name)
             => df_results[i].Status = "Failed" /\ PlacesOf(i) = {}
    /\ lookups[n].kind = "provider"
       => \A grp \in ProcessedGroups :
             RenderingKey(grp) = LookupKey(lookups[n])
             => StatusOf(grp) = "Failed" /\ SentFor(grp) = {}
    /\ lookups[n].kind = "location"
       => \A grp \in ProcessedGroups :
             LocationKey(grp) = LookupKey(lookups[n])
             => StatusOf(grp) = "Failed" /\ SentFor(grp) = {}

\* C26: a lookup of a case, a provider or a location that returned NotFound,
\* be it for a fault, an error response or a refused authorization of the
\* remote call, has NotFound cached for its key: every later lookup of the
\* key in the run returns NotFound without a remote call, and every row or
\* group that depends on the key is failed
C26_FailureCachedAsNotFound ==
    \A n \in NotFoundLookups : NotFoundKept(n) /\ DependentsFailed(n)

\* the query by name of a rendering provider raised a fault, which alone ends
\* a provider lookup without an id after one remote call; the next group of
\* the same rendering provider was answered from the cache, and both groups
\* are failed
C26_FaultThenCached ==
    /\ Len(grouped_charges) = 2 /\ proc_grp_cnt = 2
    /\ RenderingKey(grouped_charges[1]) = RenderingKey(grouped_charges[2])
    /\ \E n, m \in NotFoundLookups :
          /\ n < m
          /\ lookups[n].kind = "provider" /\ Len(lookups[n].calls) = 1
          /\ LookupKey(lookups[n]) = RenderingKey(grouped_charges[1])
          /\ LookupKey(lookups[m]) = LookupKey(lookups[n])
          /\ lookups[m].calls = <<>>
    /\ StatusOf(grouped_charges[1]) = "Failed" /\ StatusOf(grouped_charges[2]) = "Failed"

\* the lookup of the case of a patient got no answer from the service, and
\* the next row of the patient was failed from the cache
C26_CaseFailureThenCached ==
    /\ pc = "grouping" /\ df_idx = 3
    /\ \E n, m \in NotFoundLookups :
          /\ n < m
          /\ lookups[n].kind = "case" /\ lookups[n].calls # <<>>
          /\ LookupKey(lookups[m]) = LookupKey(lookups[n])
          /\ lookups[m].calls = <<>>
    /\ df_results[1].Status = "Failed" /\ df_results[2].Status = "Failed"

====
